---- MODULE Spec2Model ----
(***************************************************************************)
(* Model of the QR/LSB document watermarking service (app.py,              *)
(* pdf_utils.py, qr_utils.py).                                             *)
(*                                                                         *)
(*  Spec     one /embed_docx request: upload, real-image extraction from   *)
(*           the PDF, the per-image watermark loop, assembly of the new    *)
(*           PDF, the route's copy/placeholder step and its response.      *)
(*  SpecCrc  the CRC32 envelope: add_crc32_checksum, a change of the       *)
(*           envelope in transit, verify_crc32_checksum.                   *)
(*  SpecQr   /generate_qr building the QR text, and                        *)
(*           /validate_qr_integrity reading a decoded QR text.             *)
(*  SpecRt   a directory of watermarked images made into a PDF by        *)
(*           create_watermarked_pdf and read back by                       *)
(*           extract_images_from_pdf.                                      *)
(*  SpecCc   two /embed_docx requests served at the same time, and the    *)
(*           files each of them writes, reads and removes.                 *)
(*  SpecMet  two image files compared by calculate_mse_psnr and analysed   *)
(*           by get_detailed_pixel_info; one LSB written and read.         *)
(*  SpecXq   extract_watermark_from_pdf_real_images over the images of a   *)
(*           PDF.                                                          *)
(*  SpecSp   safe_subprocess_run over the ways a command can end.          *)
(*  SpecFs   analyze_file_size_impact over the sizes of two files.          *)
(*  SpecCm   calculate_metrics over the image pairs of two documents.       *)
(*  SpecVd   embed_watermark_to_pdf_via_docx: three steps and its temp files. *)
(*  SpecSv   requests to /embed_docx, /extract_docx, /validate_qr_integrity *)
(*           and /list_documents against the three folders.                 *)
(***************************************************************************)
EXTENDS Integers, Sequences, FiniteSets, TLC

VARIABLES
    pc,          \* position of the /embed_docx request
    kind,        \* file_extension of the upload: "pdf" or "docx"
    pdf,         \* the uploaded PDF: a sequence of pages, each the sequence of
                 \* image xrefs page.get_images() lists for it
    readable,    \* whether fitz.open accepts the uploaded file as a PDF
    docImages,   \* number of media entries of an uploaded DOCX
    extracted,   \* extracted_images: file names in extraction order
    idx,         \* loop index i of the watermark loop (1-based, next to do)
    outcomes,    \* what happened to each extracted image in the loop (history)
    pairs,       \* the original and the watermarked image of each pass (history)
    wmDir,       \* files of <work>/watermarked_images: [name, empty]
    processed,   \* processed_images
    raised,      \* exception leaving embed_watermark_to_pdf_real_images
    pdfResult,   \* dict returned by embed_watermark_to_pdf_real_images
    pdfCreated,  \* what create_watermarked_pdf returned ("none" before it ran)
    pages,       \* pages of the PDF written by create_watermarked_pdf
    workPdf,     \* file at <work>/watermarked_output.pdf
    result,      \* the route's result dict
    outFile,     \* file at stego_docx_output_path (download_url)
    docFile,     \* file at documents_output_path
    response,    \* the JSON response and its HTTP status
    crcPc,       \* position of the CRC32 scenario
    crcData,     \* payload X given to add_crc32_checksum
    crcEnv,      \* the envelope handed to verify_crc32_checksum
    crcHow,      \* how crcEnv was derived from add_crc32_checksum(X) (history)
    crcRes,      \* what verify_crc32_checksum returned
    qrPc,        \* position of the QR scenario
    qrData,      \* form field qrData of /generate_qr (code points)
    qrUse,       \* form field useCrc32 of /generate_qr
    qrText,      \* qr_data_final, the text handed to the QR generator
    qrInfo,      \* crc32_info built by generate_qr_route
    genResp,     \* response of /generate_qr
    decoded,     \* what read_qr gave /validate_qr_integrity: [exc, list]
    valResp,     \* response of /validate_qr_integrity
    metPc,       \* position of the image comparison scenario
    imgA,        \* image in the original file
    imgB,        \* image in the second (watermarked) file
    imgHow,      \* how imgB was made from imgA (history)
    metRes,      \* what calculate_mse_psnr returned
    pixInfo,     \* what get_detailed_pixel_info returned for the second file
    lsbV,        \* a channel value
    lsbB,        \* the bit written into it
    lsbOut,      \* the channel value after the write
    rtPc,        \* position of the round trip through create_watermarked_pdf
    rtDir,       \* the directory of watermarked images
    rtOrder,     \* the sorted listing create_watermarked_pdf used (history)
    rtMade,      \* what create_watermarked_pdf returned and left behind
    rtPdf,       \* the pages and image streams of the PDF it wrote
    rtOut,       \* what extract_images_from_pdf gave for that PDF
    ccPc,        \* position of each of two concurrent /embed_docx requests
    ccKind,      \* "pdf" or "docx" upload of each request
    ccNames,     \* how extract_images_from_docx names the files it writes
    ccFiles,     \* the files on disk, each with the request that wrote it
    ccHeld,      \* the image paths calculate_metrics holds in each request
    ccMetrics,   \* how the comparison of each request went
    ccForeign,   \* files of a request still running that another one touched (history)
    xqPc,        \* position of the watermark extraction from a PDF
    xqImages,    \* per extracted image: what its bit-plane holds and what the LSB extraction did
    xqResult,    \* dict returned by extract_watermark_from_pdf_real_images
    xqRaised,    \* exception leaving extract_watermark_from_pdf_real_images
    spPc,        \* position of the subprocess scenario
    spRun,       \* what subprocess.run meets: platform, how the command ended, its output
    spRes,       \* what safe_subprocess_run gave: [exc, ret]
    fsPc,        \* position of the file size scenario
    fsOriginal,  \* the original file: [exists, size]
    fsProcessed, \* the processed file: [exists, size]
    fsRes,       \* what analyze_file_size_impact gave: [exc, ret]
    cmPc,        \* position of the DOCX metrics scenario
    cmPairs,     \* the original/stego image pairs in order: how each compares
    cmStego,     \* number of images extracted from the stego document
    cmRes,       \* dict returned by calculate_metrics
    vdPc,        \* position of embed_watermark_to_pdf_via_docx
    vdPath,      \* pdf_path given to it
    vdDisk,      \* the paths that exist on disk
    vdSteps,     \* the steps it has run, in order (history)
    vdRes,       \* dict it returned
    svN,         \* requests the server has answered
    svUploads,   \* files in the upload folder: [req, field]
    svGenerated, \* files and directories in the generated folder: [req, what]
    svDocs,      \* files in the documents folder: [req, ext, created]
    svCalls,     \* the processing functions the routes have called: [req, fn] (history)
    svLast,      \* the last response: its route, status and the stage that produced it
    svList       \* what the last /list_documents answered

embedVars == <<pc, kind, pdf, readable, docImages, extracted, idx, outcomes, pairs,
                   wmDir,
               processed, raised, pdfResult, pdfCreated, pages, workPdf,
               result, outFile, docFile, response>>
crcVars == <<crcPc, crcData, crcEnv, crcHow, crcRes>>
qrVars == <<qrPc, qrData, qrUse, qrText, qrInfo, genResp, decoded, valResp>>
metVars == <<metPc, imgA, imgB, imgHow, metRes, pixInfo, lsbV, lsbB, lsbOut>>
rtVars == <<rtPc, rtDir, rtOrder, rtMade, rtPdf, rtOut>>
ccVars == <<ccPc, ccKind, ccNames, ccFiles, ccHeld, ccMetrics, ccForeign>>
xqVars == <<xqPc, xqImages, xqResult, xqRaised>>
spVars == <<spPc, spRun, spRes>>
fsVars == <<fsPc, fsOriginal, fsProcessed, fsRes>>
cmVars == <<cmPc, cmPairs, cmStego, cmRes>>
vdVars == <<vdPc, vdPath, vdDisk, vdSteps, vdRes>>
svVars == <<svN, svUploads, svGenerated, svDocs, svCalls, svLast, svList>>
vars == <<embedVars, crcVars, qrVars, metVars, rtVars, ccVars, xqVars, spVars, fsVars, cmVars, vdVars, svVars>>

\* the variables each scenario leaves alone
exceptEmbed == <<crcVars, qrVars, metVars, rtVars, ccVars, xqVars, spVars, fsVars, cmVars, vdVars, svVars>>
exceptCrc == <<embedVars, qrVars, metVars, rtVars, ccVars, xqVars, spVars, fsVars, cmVars, vdVars, svVars>>
exceptQr == <<embedVars, crcVars, metVars, rtVars, ccVars, xqVars, spVars, fsVars, cmVars, vdVars, svVars>>
exceptMet == <<embedVars, crcVars, qrVars, rtVars, ccVars, xqVars, spVars, fsVars, cmVars, vdVars, svVars>>
exceptRt == <<embedVars, crcVars, qrVars, metVars, ccVars, xqVars, spVars, fsVars, cmVars, vdVars, svVars>>
exceptXq == <<embedVars, crcVars, qrVars, metVars, rtVars, ccVars, spVars, fsVars, cmVars, vdVars, svVars>>
exceptCc == <<embedVars, crcVars, qrVars, metVars, rtVars, xqVars, spVars, fsVars, cmVars, vdVars, svVars>>
exceptFs == <<embedVars, crcVars, qrVars, metVars, rtVars, ccVars, xqVars, spVars, cmVars, vdVars, svVars>>
exceptSp == <<embedVars, crcVars, qrVars, metVars, rtVars, ccVars, xqVars, fsVars, cmVars, vdVars, svVars>>
exceptVd == <<embedVars, crcVars, qrVars, metVars, rtVars, ccVars, xqVars, spVars, fsVars, cmVars, svVars>>
exceptCm == <<embedVars, crcVars, qrVars, metVars, rtVars, ccVars, xqVars, spVars, fsVars, vdVars, svVars>>
exceptSv == <<embedVars, crcVars, qrVars, metVars, rtVars, ccVars, xqVars, spVars, fsVars, cmVars, vdVars>>

----------------------------------------------------------------------------
(* Bounds of the model.                                                    *)

\* pages of the PDF that may carry images
MaxPages == 2
\* image references (page, index) in the whole PDF
MaxRefs == 2
\* distinct image streams (xrefs 1..MaxXref)
MaxXref == 2
\* image-less pages that may precede the pages carrying images
MaxLead == 8
\* media entries of an uploaded DOCX
MaxDocImages == 2

Xrefs == 1..MaxXref

\* None of Python, and a file that does not exist
None == "None"
Absent == "absent"

----------------------------------------------------------------------------
(* Decimal formatting and parsing of page and image numbers in file names. *)

RECURSIVE Digits(_)
\* f"{n}" for a natural number: its decimal digits, most significant first
Digits(n) == IF n < 10 THEN <<n>> ELSE Append(Digits(n \div 10), n % 10)

RECURSIVE ToInt(_)
\* int(s) for a string of decimal digits
ToInt(ds) ==
    IF ds = <<>> THEN 0
    ELSE 10 * ToInt(SubSeq(ds, 1, Len(ds) - 1)) + ds[Len(ds)]

\* pdf_image_p{page}_i{img}_{uuid}.{ext}: the uuid suffix only makes names
\* unique, which (page, img) already are within one extraction
FileName(page, img, ext) == [p |-> Digits(page), i |-> Digits(img), ext |-> ext]

RECURSIVE SeqSum(_)
SeqSum(s) == IF s = <<>> THEN 0 ELSE Head(s) + SeqSum(Tail(s))

\* number of image references of a PDF
TotalRefs(d) == SeqSum([k \in 1..Len(d) |-> Len(d[k])])

\* the (page, index) positions the extraction loops visit
Positions(d) == {<<p, i>> \in (1..Len(d)) \X (1..MaxRefs + 1) : i <= Len(d[p])}

\* distinct image streams referenced by a PDF
DistinctXrefs(d) == {d[q[1]][q[2]] : q \in Positions(d)}

----------------------------------------------------------------------------
(* The uploads the model draws from.                                       *)

RECURSIVE ImageLists(_)
\* the image lists of a page with at most n entries: page.get_images() names
\* each image stream of the page once
ImageLists(n) ==
    IF n = 0 THEN {<<>>}
    ELSE LET shorter == ImageLists(n - 1)
         IN shorter \cup
            UNION {{Append(l, x) : x \in Xrefs \ {l[k] : k \in 1..Len(l)}} :
                   l \in {s \in shorter : Len(s) = n - 1}}

RECURSIVE PdfBodies(_, _)
\* PDFs of exactly n pages with at most r image references
PdfBodies(n, r) ==
    IF n = 0 THEN {<<>>}
    ELSE UNION {{Append(b, l) : b \in PdfBodies(n - 1, r - Len(l))} :
                l \in ImageLists(r)}

EmptyPages(n) == [k \in 1..n |-> <<>>]

\* a PDF has at least one page
Pdfs == {EmptyPages(lead) \o b :
            lead \in {0, MaxLead},
            b \in UNION {PdfBodies(n, MaxRefs) : n \in 1..MaxPages}}

----------------------------------------------------------------------------
(* extract_images_from_pdf                                                 *)

\* extension of the file finally kept for an extracted stream: "png" when the
\* stream was PNG or was converted to PNG, "jb2" when it was not PNG and the
\* conversion failed (the file keeps the stream's own extension)
KeptExts == {"png", "jb2"}
\* per image reference: extract_image/write raised, or the kept extension
ExtractOutcomes == {"fail"} \cup KeptExts

RECURSIVE ExtractPage(_, _, _, _)
\* the inner loop over image_list of page p, from index i on
ExtractPage(d, oc, p, i) ==
    IF i > Len(d[p]) THEN <<>>
    ELSE IF oc[<<p, i>>] = "fail" THEN ExtractPage(d, oc, p, i + 1)
    ELSE <<FileName(p, i, oc[<<p, i>>])>> \o ExtractPage(d, oc, p, i + 1)

\* (mutant) the outer loop left after its first page
ExtractFrom_FirstPage(d, oc, p) ==
    IF p > Len(d) THEN <<>> ELSE ExtractPage(d, oc, p, 1)

RECURSIVE ExtractFrom(_, _, _)
\* the outer loop over the pages, from page p on
ExtractFrom(d, oc, p) ==
    IF p > Len(d) THEN <<>>
    ELSE ExtractPage(d, oc, p, 1) \o ExtractFrom(d, oc, p + 1)

\* (mutant) an extraction that returns the empty list instead of raising
extract_images_from_pdf_ReturnsEmpty(d, openOk, oc) ==
    IF ~openOk THEN [exc |-> "FileDataError", images |-> <<>>]
    ELSE [exc |-> None, images |-> ExtractFrom(d, oc, 1)]

\* exc: the exception that leaves the function (None: it returned images)
extract_images_from_pdf(d, openOk, oc) ==
    IF ~openOk THEN [exc |-> "FileDataError", images |-> <<>>]
    ELSE LET extracted_images == ExtractFrom(d, oc, 1)
         IN IF extracted_images = <<>>
            THEN [exc |-> "NO_IMAGES_FOUND", images |-> <<>>]
            ELSE [exc |-> None, images |-> extracted_images]

----------------------------------------------------------------------------
(* create_watermarked_pdf                                                  *)

\* (mutant) the pattern _p(\d)_i(\d)_ : numbers of two digits do not match
\* and fall back to (0, 0)
extract_page_number_OneDigit(name) ==
    IF Len(name.p) = 1 /\ Len(name.i) = 1
    THEN <<ToInt(name.p), ToInt(name.i)>>
    ELSE <<0, 0>>

\* the (page_num, img_num) sort key read from a file name
extract_page_number(name) == <<ToInt(name.p), ToInt(name.i)>>

\* Python's tuple comparison of two keys
KeyLeq(a, b) == a[1] < b[1] \/ (a[1] = b[1] /\ a[2] <= b[2])

RECURSIVE SortedOrders(_)
\* every result list.sort(key=...) can give for the files of a directory that
\* os.listdir returns in an arbitrary order (the sort is stable, so files with
\* equal keys stay in listing order)
SortedOrders(S) ==
    IF S = {} THEN {<<>>}
    ELSE UNION {{<<m>> \o t : t \in SortedOrders(S \ {m})} :
                m \in {x \in S : \A y \in S :
                          KeyLeq(extract_page_number(x.name),
                                 extract_page_number(y.name))}}

\* suffixes create_watermarked_pdf accepts
PdfImageExts == {"png", "jpg", "jpeg"}

SeqOfNames(s) == [k \in 1..Len(s) |-> s[k].name]

\* dir: the watermarked-images directory; order: the sorted listing; saveOk:
\* whether PIL wrote the PDF; partial: whether a failed save left a file behind
create_watermarked_pdf(dir, order, saveOk, partial) ==
    LET image_files == {f \in dir : f.name.ext \in PdfImageExts}
    IN IF image_files = {}
       THEN [created |-> FALSE, pages |-> <<>>, file |-> Absent]
       ELSE IF \E f \in image_files : f.empty
       THEN \* Image.open raises on an empty file; caught, returns False
            [created |-> FALSE, pages |-> <<>>, file |-> Absent]
       ELSE IF saveOk
       THEN [created |-> TRUE, pages |-> SeqOfNames(order), file |-> "pdf"]
       ELSE [created |-> FALSE, pages |-> <<>>,
             file |-> IF partial THEN "partial" ELSE Absent]

----------------------------------------------------------------------------
(* Results and messages.  A message is the sequence of its words; the      *)
(* route's test  "NO_IMAGES_FOUND" in stderr  is membership of that word.  *)

MsgNoImagesPdf == <<"Tidak", "ada", "gambar", "ditemukan", "di", "dalam", "PDF">>
MsgWatermarkingFailed == <<"Tidak", "ada", "gambar", "yang", "berhasil", "di-watermark">>
MsgErrorProcessing == <<"Error", "memproses", "PDF">>
MsgDocxNoImages == <<"ValueError:", "NO_IMAGES_FOUND">>
MsgDocxFailed == <<"Error">>

InMessage(word, msg) == \E k \in 1..Len(msg) : msg[k] = word

NoPdfResult ==
    [success |-> FALSE, message |-> <<>>, error_type |-> "unset",
     watermarked_pdf_path |-> None, processed_images |-> <<>>,
     total_images |-> 0]

NoResult == [success |-> FALSE, stderr |-> <<>>, set |-> FALSE]

NoResponse == [status |-> 0, success |-> FALSE, error_type |-> None,
               message |-> "unset"]

----------------------------------------------------------------------------
(* Python values of the CRC32 envelope.  A value is [t, v]: its type and   *)
(* its content.  An integer is the set of the positions of its 1-bits     *)
(* (0 is the lowest), so 0 is {}.  dict.get gives None for a missing key,  *)
(* so a dict without a key is the dict that maps the key to PyNone.        *)

\* characters of a payload
MaxLen == 2
\* code points the payloads are made of: A, B (one UTF-8 byte each) and
\* e-grave, e-acute (two bytes each)
CodePoints == {65, 66, 232, 233}

PyNone == [t |-> "none", v |-> <<>>]
PyStr(s) == [t |-> "str", v |-> s]
PyInt(w) == [t |-> "int", v |-> w]
PyList(s) == [t |-> "list", v |-> s]
PyDict(d, c, ts) == [t |-> "dict", v |-> [data |-> d, crc32 |-> c, timestamp |-> ts]]

\* bool(x) of Python
Truthy(x) ==
    CASE x.t = "none" -> FALSE
      [] x.t = "int" -> x.v # {}
      [] x.t = "bool" -> x.v
      [] OTHER -> x.v # <<>>

RECURSIVE Strings(_)
\* strings of at most n characters
Strings(n) ==
    IF n = 0 THEN {<<>>}
    ELSE LET shorter == Strings(n - 1)
         IN shorter \cup {Append(s, c) : s \in {x \in shorter : Len(x) = n - 1},
                                         c \in CodePoints}

\* str.encode('utf-8') of one character
Utf8Char(cp) ==
    IF cp < 128 THEN <<cp>>
    ELSE IF cp < 2048 THEN <<192 + (cp \div 64), 128 + (cp % 64)>>
    ELSE <<224 + (cp \div 4096), 128 + ((cp \div 64) % 64), 128 + (cp % 64)>>

RECURSIVE Utf8(_)
\* str.encode('utf-8')
Utf8(s) == IF s = <<>> THEN <<>> ELSE Utf8Char(Head(s)) \o Utf8(Tail(s))

\* the 1-bits of the w-bit value n
Bits(n, w) == {k \in 0..(w - 1) : (n \div (2^k)) % 2 = 1}

\* x ^ y
Xor32(x, y) == (x \ y) \cup (y \ x)

\* x >> 1
ShiftRight1(x) == {k - 1 : k \in x \ {0}}

\* the reflected CRC-32 polynomial 0xEDB88320 of zlib
CrcPoly == {5, 8, 9, 15, 19, 20, 21, 23, 24, 26, 27, 29, 30, 31}

\* 0xffffffff
AllOnes == 0..31

RECURSIVE CrcBits(_, _)
\* n rounds of the bitwise CRC step
CrcBits(c, n) ==
    IF n = 0 THEN c
    ELSE CrcBits(IF 0 \in c THEN Xor32(ShiftRight1(c), CrcPoly)
                 ELSE ShiftRight1(c), n - 1)

RECURSIVE CrcUpdate(_, _)
CrcUpdate(c, bytes) ==
    IF bytes = <<>> THEN c
    ELSE CrcUpdate(CrcBits(Xor32(c, Bits(Head(bytes), 8)), 8), Tail(bytes))

\* zlib.crc32(bytes) & 0xffffffff
Crc32(bytes) == Xor32(CrcUpdate(AllOnes, bytes), AllOnes)

\* readings of the clock, int(time.time())
Timestamps == {Bits(1700000000, 31), Bits(1700000001, 31)}

\* add_crc32_checksum(data) when the clock reads ts
add_crc32_checksum(data, ts) ==
    PyDict(PyStr(data), PyInt(Crc32(Utf8(data))), PyInt(ts))

\* (mutant) a verification that accepts every complete envelope
ChecksumMatches_Always(calculated, stored) == TRUE

\* calculated_checksum == stored_checksum
ChecksumMatches(calculated, stored) == stored.t = "int" /\ stored.v = calculated

\* (mutant) verify_crc32_checksum without its try/except
verify_crc32_checksum_NoCatch(e) ==
    IF e.t # "dict"
    THEN [exc |-> None, ret |-> [valid |-> FALSE,
                                 error |-> "Data tidak dalam format yang benar"]]
    ELSE IF ~Truthy(e.v.data) \/ e.v.crc32.t = "none"
    THEN [exc |-> None, ret |-> [valid |-> FALSE,
                                 error |-> "Data atau checksum tidak lengkap"]]
    ELSE IF e.v.data.t # "str"
    THEN [exc |-> "AttributeError", ret |-> [valid |-> FALSE, error |-> "raised"]]
    ELSE LET data_valid == ChecksumMatches(Crc32(Utf8(e.v.data.v)), e.v.crc32)
         IN [exc |-> None, ret |-> [valid |-> data_valid, data_valid |-> data_valid,
                                    timestamp |-> e.v.timestamp]]

\* verify_crc32_checksum(e): exc is the exception that leaves the function
\* (None: it returned), ret the dict it returns
verify_crc32_checksum(e) ==
    IF e.t # "dict"
    THEN [exc |-> None, ret |-> [valid |-> FALSE,
                                 error |-> "Data tidak dalam format yang benar"]]
    ELSE IF ~Truthy(e.v.data) \/ e.v.crc32.t = "none"
    THEN [exc |-> None, ret |-> [valid |-> FALSE,
                                 error |-> "Data atau checksum tidak lengkap"]]
    ELSE IF e.v.data.t # "str"
    THEN \* .encode raises AttributeError, caught by the except clause
         [exc |-> None, ret |-> [valid |-> FALSE,
                                 error |-> "object has no attribute 'encode'"]]
    ELSE LET data_valid == ChecksumMatches(Crc32(Utf8(e.v.data.v)), e.v.crc32)
         IN [exc |-> None, ret |-> [valid |-> data_valid, data_valid |-> data_valid,
                                    timestamp |-> e.v.timestamp]]

\* dict.get(key, default) on a returned dict
Get(d, key, default) == IF key \in DOMAIN d THEN d[key] ELSE default

NotVerified == [exc |-> None, ret |-> [pending |-> TRUE]]

----------------------------------------------------------------------------
(* Text: a Python str as it is written out, a sequence of characters.  A   *)
(* character is a one-letter string, "U+0060" for the grave accent, and    *)
(* "U+00E8", "U+00E9" for the two characters outside ASCII that payloads   *)
(* use.  json.dumps and json.loads   *)
(* work on texts; the texts of the model hold no white space, no sign, no  *)
(* fraction and no exponent.                                               *)

\* the printable ASCII characters, code points 32..126
AsciiTable ==
    <<" ", "!", "\"", "#", "$", "%", "&", "'", "(", ")", "*", "+", ",",
      "-", ".", "/", "0", "1", "2", "3", "4", "5", "6", "7", "8", "9", ":",
      ";", "<", "=", ">", "?", "@", "A", "B", "C", "D", "E", "F", "G", "H",
      "I", "J", "K", "L", "M", "N", "O", "P", "Q", "R", "S", "T", "U", "V",
      "W", "X", "Y", "Z", "[", "\\", "]", "^", "_", "U+0060", "a", "b", "c",
      "d", "e", "f", "g", "h", "i", "j", "k", "l", "m", "n", "o", "p", "q",
      "r", "s", "t", "u", "v", "w", "x", "y", "z", "{", "|", "}", "~">>

\* chr(cp)
Chr(cp) ==
    IF cp \in 32..126 THEN AsciiTable[cp - 31]
    ELSE IF cp = 232 THEN "U+00E8"
    ELSE "U+00E9"

\* ord(c)
Ord(c) == CHOOSE cp \in (32..126) \cup {232, 233} : Chr(cp) = c

\* the text of a str given by its code points
TextOf(s) == [k \in 1..Len(s) |-> Chr(s[k])]

\* the str a text is
StrOf(t) == [k \in 1..Len(t) |-> Ord(t[k])]

RECURSIVE Concat(_)
\* "".join(parts)
Concat(parts) == IF parts = <<>> THEN <<>> ELSE Head(parts) \o Concat(Tail(parts))

RECURSIVE DoubleLE(_, _)
\* 2 * n + carry on decimal digits, least significant first
DoubleLE(ds, carry) ==
    IF ds = <<>> THEN (IF carry = 0 THEN <<>> ELSE <<carry>>)
    ELSE <<(2 * Head(ds) + carry) % 10>>
         \o DoubleLE(Tail(ds), (2 * Head(ds) + carry) \div 10)

RECURSIVE DecLE(_, _)
\* decimal digits, least significant first, of the bits at positions >= k
DecLE(bits, k) ==
    IF k > 31 THEN <<>>
    ELSE DoubleLE(DecLE(bits, k + 1), IF k \in bits THEN 1 ELSE 0)

\* str(n) of an integer 0 <= n < 2^32
IntText(bits) ==
    IF bits = {} THEN <<"0">>
    ELSE LET le == DecLE(bits, 0)
         IN [k \in 1..Len(le) |-> Chr(48 + le[Len(le) + 1 - k])]

RECURSIVE HalfFrom(_, _)
\* n div 2 on decimal digits, most significant first
HalfFrom(ds, rem) ==
    IF ds = <<>> THEN <<>>
    ELSE <<(10 * rem + Head(ds)) \div 2>>
         \o HalfFrom(Tail(ds), (10 * rem + Head(ds)) % 2)

RECURSIVE BitsOfDec(_, _)
\* int(ds): the 1-bits of the number, the lowest of them counted as bit k
BitsOfDec(ds, k) ==
    IF \A j \in 1..Len(ds) : ds[j] = 0 THEN {}
    ELSE (IF ds[Len(ds)] % 2 = 1 THEN {k} ELSE {})
         \cup BitsOfDec(HalfFrom(ds, 0), k + 1)

HexChar(n) == Chr(IF n < 10 THEN 48 + n ELSE 87 + n)

\* value of a hexadecimal digit, -1 for any other character
HexVal(c) ==
    IF \E n \in 0..15 : HexChar(n) = c THEN CHOOSE n \in 0..15 : HexChar(n) = c
    ELSE IF \E n \in 10..15 : Chr(55 + n) = c
    THEN CHOOSE n \in 10..15 : Chr(55 + n) = c
    ELSE -1

\* (mutant) a str written between quotes as it is, nothing escaped
DumpsChar_Verbatim(cp) == <<Chr(cp)>>

\* json.dumps of one character of a str (ensure_ascii is on)
DumpsChar(cp) ==
    IF cp = 34 THEN <<"\\", "\"">>
    ELSE IF cp = 92 THEN <<"\\", "\\">>
    ELSE IF cp \in 32..126 THEN <<Chr(cp)>>
    ELSE <<"\\", "u", HexChar(cp \div 4096), HexChar((cp \div 256) % 16),
           HexChar((cp \div 16) % 16), HexChar(cp % 16)>>

\* json.dumps of a str, an int or None
DumpsValue(x) ==
    IF x.t = "str"
    THEN <<"\"">> \o Concat([k \in 1..Len(x.v) |-> DumpsChar(x.v[k])]) \o <<"\"">>
    ELSE IF x.t = "int" THEN IntText(x.v)
    ELSE <<"n", "u", "l", "l">>

KeyData == <<"d", "a", "t", "a">>
KeyCrc32 == <<"c", "r", "c", "3", "2">>
KeyTimestamp == <<"t", "i", "m", "e", "s", "t", "a", "m", "p">>

\* "key":value
DumpsMember(key, x) == <<"\"">> \o key \o <<"\"", ":">> \o DumpsValue(x)

RECURSIVE DumpsMembers(_)
DumpsMembers(ms) ==
    IF ms = <<>> THEN <<>>
    ELSE DumpsMember(ms[1][1], ms[1][2])
         \o (IF Len(ms) = 1 THEN <<>> ELSE <<",">> \o DumpsMembers(Tail(ms)))

\* json.dumps of a dict, separators=(',', ':'); ms are its (key, value) pairs
DumpsObject(ms) == <<"{">> \o DumpsMembers(ms) \o <<"}">>

\* json.dumps(e, separators=(',', ':')) of a dict made by add_crc32_checksum
json_dumps(e) ==
    DumpsObject(<<<<KeyData, e.v.data>>, <<KeyCrc32, e.v.crc32>>,
                  <<KeyTimestamp, e.v.timestamp>>>>)

PyBool(b) == [t |-> "bool", v |-> b]

\* a dict as the three values dict.get reads from it
EmptyDict == PyDict(PyNone, PyNone, PyNone)

\* d[key] = x, for the keys the program reads
DictSet(d, key, x) ==
    IF key = StrOf(KeyData) THEN [d EXCEPT !.v.data = x]
    ELSE IF key = StrOf(KeyCrc32) THEN [d EXCEPT !.v.crc32 = x]
    ELSE IF key = StrOf(KeyTimestamp) THEN [d EXCEPT !.v.timestamp = x]
    ELSE d

\* result of scanning one JSON value: v is the value, i the index after it
JFail == [ok |-> FALSE, v |-> PyNone, i |-> 0]
JOk(x, i) == [ok |-> TRUE, v |-> x, i |-> i]

\* the character at index i, "EOF" after the end
At(t, i) == IF i \in 1..Len(t) THEN t[i] ELSE "EOF"

DigitChars == {Chr(48 + n) : n \in 0..9}

\* whether a word stands at index i
Stands(t, i, word) == \A k \in 1..Len(word) : At(t, i + k - 1) = word[k]

RECURSIVE ScanString(_, _, _)
\* a string from index i, after its opening quote; acc are its code points
ScanString(t, i, acc) ==
    LET c == At(t, i)
        e == At(t, i + 1)
    IN  IF c = "EOF" THEN JFail
        ELSE IF c = "\"" THEN JOk(PyStr(acc), i + 1)
        ELSE IF c # "\\" THEN ScanString(t, i + 1, Append(acc, Ord(c)))
        ELSE IF e \in {"\"", "\\", "/"}
        THEN ScanString(t, i + 2, Append(acc, Ord(e)))
        ELSE IF e = "u" /\ \A k \in 2..5 : HexVal(At(t, i + k)) >= 0
        THEN ScanString(t, i + 6,
                 Append(acc, 4096 * HexVal(At(t, i + 2)) + 256 * HexVal(At(t, i + 3))
                             + 16 * HexVal(At(t, i + 4)) + HexVal(At(t, i + 5))))
        ELSE JFail

RECURSIVE DigitsEnd(_, _)
\* index after the run of digits that starts at i
DigitsEnd(t, i) == IF At(t, i) \in DigitChars THEN DigitsEnd(t, i + 1) ELSE i

\* an integer at index i; a leading 0 is a number of its own
ScanNumber(t, i) ==
    IF At(t, i) = "0" THEN JOk(PyInt({}), i + 1)
    ELSE LET j == DigitsEnd(t, i)
         IN JOk(PyInt(BitsOfDec([k \in 1..(j - i) |-> Ord(t[i + k - 1]) - 48], 0)), j)

RECURSIVE ScanValue(_, _)
RECURSIVE ScanItems(_, _, _)
RECURSIVE ScanMembers(_, _, _)

\* the items of a list from index i; acc are the items before
ScanItems(t, i, acc) ==
    LET r == ScanValue(t, i)
    IN  IF ~r.ok THEN JFail
        ELSE IF At(t, r.i) = "," THEN ScanItems(t, r.i + 1, Append(acc, r.v))
        ELSE IF At(t, r.i) = "]" THEN JOk(PyList(Append(acc, r.v)), r.i + 1)
        ELSE JFail

\* the members of an object from index i; d holds the members before
ScanMembers(t, i, d) ==
    LET key == IF At(t, i) = "\"" THEN ScanString(t, i + 1, <<>>) ELSE JFail
        r == IF key.ok /\ At(t, key.i) = ":" THEN ScanValue(t, key.i + 1) ELSE JFail
    IN  IF ~r.ok THEN JFail
        ELSE IF At(t, r.i) = "," THEN ScanMembers(t, r.i + 1, DictSet(d, key.v.v, r.v))
        ELSE IF At(t, r.i) = "}" THEN JOk(DictSet(d, key.v.v, r.v), r.i + 1)
        ELSE JFail

\* one JSON value at index i
ScanValue(t, i) ==
    LET c == At(t, i)
    IN  IF c = "\"" THEN ScanString(t, i + 1, <<>>)
        ELSE IF c = "{"
        THEN IF At(t, i + 1) = "}" THEN JOk(EmptyDict, i + 2)
             ELSE ScanMembers(t, i + 1, EmptyDict)
        ELSE IF c = "["
        THEN IF At(t, i + 1) = "]" THEN JOk(PyList(<<>>), i + 2)
             ELSE ScanItems(t, i + 1, <<>>)
        ELSE IF c \in DigitChars THEN ScanNumber(t, i)
        ELSE IF Stands(t, i, <<"n", "u", "l", "l">>) THEN JOk(PyNone, i + 4)
        ELSE IF Stands(t, i, <<"t", "r", "u", "e">>) THEN JOk(PyBool(TRUE), i + 4)
        ELSE IF Stands(t, i, <<"f", "a", "l", "s", "e">>) THEN JOk(PyBool(FALSE), i + 5)
        ELSE JFail

\* json.loads(t): exc is the exception raised (None: it returned v)
json_loads(t) ==
    LET r == ScanValue(t, 1)
    IN  IF r.ok /\ r.i = Len(t) + 1 THEN [exc |-> None, v |-> r.v]
        ELSE [exc |-> "JSONDecodeError", v |-> PyNone]

----------------------------------------------------------------------------
(* Images as cv2.imread gives them: height x width pixels of three 8-bit   *)
(* channels <<blue, green, red>>, row by row; None for a file that is not  *)
(* a readable image.                                                       *)

\* side of the largest image, in pixels
MaxSide == 2

Unreadable == [readable |-> FALSE]
Image(w, h, px) == [readable |-> TRUE, w |-> w, h |-> h, px |-> px]

\* place of the blue channel in a pixel read by cv2.imread
Blue == 1

\* the number whose 1-bits are S
FromBits(S) == SeqSum([k \in 1..8 |-> IF (k - 1) \in S THEN 2^(k - 1) ELSE 0])

\* (mutant) the bit written over the whole value
WriteLsb_Overwrite(v, b) == b

\* (v & 0xFE) | b
WriteLsb(v, b) == FromBits((Bits(v, 8) \cap Bits(254, 8)) \cup Bits(b, 8))

\* (mutant) the highest bit read instead of the lowest
ReadLsb_HighBit(v) == FromBits(Bits(v, 8) \cap Bits(128, 8)) \div 128

\* value & 1
ReadLsb(v) == FromBits(Bits(v, 8) \cap Bits(1, 8))

\* original.shape
Shape(img) == <<img.h, img.w, 3>>

\* sum over every pixel and channel of (a - b) ** 2
SumSquares(a, b) ==
    SeqSum([k \in 1..Len(a.px) |->
              SeqSum([c \in 1..3 |-> (a.px[k][c] - b.px[k][c]) * (a.px[k][c] - b.px[k][c])])])

\* psnr as calculate_mse_psnr holds it: the constant 999.99, or
\* 20 * log10(255 / sqrt(mse)) for mse = num / den > 0
PsnrSentinel == [kind |-> "999.99", num |-> 0, den |-> 1]
PsnrOf(num, den) == [kind |-> "log", num |-> num, den |-> den]

\* psnr >= 999: of the computed values only one with 255^2 / mse >= 10^99.9,
\* which no mse >= 1 / 2^31 reaches
PsnrAtLeast999(psnr) == psnr.kind \in {"999.99", "inf"}

\* psnr > t for t = 20, 30, 40:  255^2 / mse > 10^(t/10), both sides over 25
PsnrAbove(psnr, t) ==
    \/ PsnrAtLeast999(psnr)
    \/ 2601 * psnr.den > 4 * (10^((t \div 10) - 2)) * psnr.num

\* (mutant) the labels with the tests for Baik and Cukup exchanged
QualityOf_Exchanged(psnr) ==
    IF PsnrAtLeast999(psnr) THEN "Identik"
    ELSE IF PsnrAbove(psnr, 40) THEN "Sangat Baik"
    ELSE IF PsnrAbove(psnr, 20) THEN "Baik"
    ELSE IF PsnrAbove(psnr, 30) THEN "Cukup"
    ELSE "Buruk"

\* the quality label of a psnr
QualityOf(psnr) ==
    IF PsnrAtLeast999(psnr) THEN "Identik"
    ELSE IF PsnrAbove(psnr, 40) THEN "Sangat Baik"
    ELSE IF PsnrAbove(psnr, 30) THEN "Baik"
    ELSE IF PsnrAbove(psnr, 20) THEN "Cukup"
    ELSE "Buruk"

\* (mutant) psnr left at infinity for identical images
PsnrFor_Infinite(num, den) ==
    IF num = 0 THEN [kind |-> "inf", num |-> 0, den |-> 1] ELSE PsnrOf(num, den)

\* the psnr computed for mse = num / den
PsnrFor(num, den) == IF num = 0 THEN PsnrSentinel ELSE PsnrOf(num, den)

\* (mutant) calculate_mse_psnr without the comparison of the shapes
calculate_mse_psnr_NoShapeTest(original, watermarked) ==
    IF ~original.readable \/ ~watermarked.readable
    THEN [error |-> "Tidak dapat membaca salah satu gambar"]
    ELSE [error |-> "Error menghitung MSE/PSNR"]

\* calculate_mse_psnr(original_path, watermarked_path) for the images the two
\* files hold; mse is the fraction <<num, den>>
calculate_mse_psnr(original, watermarked) ==
    IF ~original.readable \/ ~watermarked.readable
    THEN [error |-> "Tidak dapat membaca salah satu gambar"]
    ELSE IF Shape(original) # Shape(watermarked)
    THEN [error |-> "Ukuran gambar tidak sama"]
    ELSE LET num == SumSquares(original, watermarked)
             den == 3 * original.w * original.h
             psnr == PsnrFor(num, den)
         IN  [success |-> TRUE, mse |-> <<num, den>>, psnr |-> psnr,
              quality |-> QualityOf(psnr), max_pixel_value |-> 255]

\* get_detailed_pixel_info(image_path): the size and LSB figures of its result
get_detailed_pixel_info(img) ==
    IF ~img.readable THEN [error |-> "Tidak dapat membaca gambar"]
    ELSE LET lsb_values == [k \in 1..Len(img.px) |-> ReadLsb(img.px[k][Blue])]
             ones == Cardinality({k \in 1..Len(img.px) : lsb_values[k] = 1})
             zeros == Cardinality({k \in 1..Len(img.px) : lsb_values[k] = 0})
         IN  [success |-> TRUE,
              image_info |-> [width |-> img.w, height |-> img.h,
                              total_pixels |-> img.w * img.h],
              lsb_analysis |-> [lsb_0_count |-> zeros, lsb_1_count |-> ones],
              steganography_capacity |-> img.w * img.h]

\* colours <<blue, green, red>> of the original images
Colours == {<<0, 0, 0>>, <<255, 255, 255>>, <<200, 150, 100>>}

\* the image of one colour
Uniform(w, h, c) == Image(w, h, [k \in 1..(w * h) |-> c])

\* the bits written, one for each pixel
BitPatterns(img) == [1..Len(img.px) -> {0, 1}]

\* img with bits[k] written into the blue LSB of pixel k
WithLsb(img, bits) ==
    [img EXCEPT !.px = [k \in 1..Len(img.px) |->
                          [img.px[k] EXCEPT ![Blue] = WriteLsb(@, bits[k])]]]

\* amounts by which a channel value is changed
Deltas == {2, 5, 16, 100}

\* img with the channels chans of the pixels S moved by d
WithDelta(img, S, chans, d) ==
    [img EXCEPT !.px = [k \in 1..Len(img.px) |->
                          [c \in 1..3 |->
                              IF k \in S /\ c \in chans
                              THEN (IF img.px[k][c] + d <= 255 THEN img.px[k][c] + d
                                    ELSE img.px[k][c] - d)
                              ELSE img.px[k][c]]]]

NoMetrics == [pending |-> TRUE]

MetIdle ==
    /\ metPc = "idle"
    /\ imgA = Unreadable
    /\ imgB = Unreadable
    /\ imgHow = "none"
    /\ metRes = NoMetrics
    /\ pixInfo = NoMetrics
    /\ lsbV = 0
    /\ lsbB = 0
    /\ lsbOut = 0

\* an original image file is there, or one channel value and one bit
MetInit ==
    /\ imgB = Unreadable
    /\ imgHow = "none"
    /\ metRes = NoMetrics
    /\ pixInfo = NoMetrics
    /\ lsbOut = 0
    /\ \/ /\ metPc = "start"
          /\ \E w, h \in 1..MaxSide, c \in Colours : imgA = Uniform(w, h, c)
          /\ lsbV = 0
          /\ lsbB = 0
       \/ /\ metPc = "bit"
          /\ imgA = Unreadable
          /\ lsbV \in 0..255
          /\ lsbB \in {0, 1}

\* the second file: a copy, the original with bits in the blue LSBs, the
\* original with channel values moved, an image of another size, or a file
\* that is no image
MakeSecond ==
    /\ metPc = "start"
    /\ \/ imgHow' = "same" /\ imgB' = imgA
       \/ /\ imgHow' = "lsb"
          /\ \E bits \in BitPatterns(imgA) : imgB' = WithLsb(imgA, bits)
       \/ /\ imgHow' = "delta"
          /\ \E S \in (SUBSET (1..Len(imgA.px))) \ {{}}, chans \in {{Blue}, {1, 2, 3}},
                d \in Deltas :
                imgB' = WithDelta(imgA, S, chans, d)
       \/ /\ imgHow' = "resized"
          /\ \E w, h \in 1..MaxSide :
                /\ <<w, h>> # <<imgA.w, imgA.h>>
                /\ imgB' = Uniform(w, h, imgA.px[1])
       \/ imgHow' = "unreadable" /\ imgB' = Unreadable
    /\ metPc' = "made"
    /\ UNCHANGED <<imgA, metRes, pixInfo, lsbV, lsbB, lsbOut>>
    /\ UNCHANGED exceptMet

\* calculate_mse_psnr(original, second)
Compare ==
    /\ metPc = "made"
    /\ metRes' = calculate_mse_psnr(imgA, imgB)
    /\ metPc' = "compared"
    /\ UNCHANGED <<imgA, imgB, imgHow, pixInfo, lsbV, lsbB, lsbOut>>
    /\ UNCHANGED exceptMet

\* get_detailed_pixel_info(second)
Analyse ==
    /\ metPc = "compared"
    /\ pixInfo' = get_detailed_pixel_info(imgB)
    /\ metPc' = "analysed"
    /\ UNCHANGED <<imgA, imgB, imgHow, metRes, lsbV, lsbB, lsbOut>>
    /\ UNCHANGED exceptMet

\* one bit written into one channel value
WriteBit ==
    /\ metPc = "bit"
    /\ lsbOut' = WriteLsb(lsbV, lsbB)
    /\ metPc' = "written"
    /\ UNCHANGED <<imgA, imgB, imgHow, metRes, pixInfo, lsbV, lsbB>>
    /\ UNCHANGED exceptMet

----------------------------------------------------------------------------
(* The round trip: create_watermarked_pdf, then extract_images_from_pdf.   *)

\* the (page, image) numbers in the names of the watermarked files
RtPositions == {<<1, 1>>, <<2, 1>>, <<2, 2>>, <<10, 1>>}

\* what the directory holds for one of them: nothing, an image file with a
\* suffix create_watermarked_pdf accepts or not, or an empty file
RtKinds == {"none", "png", "jb2", "png_empty"}

\* the directory for the choice f of a kind for every position
RtDirOf(f) ==
    {[name |-> FileName(q[1], q[2], IF f[q] = "jb2" THEN "jb2" ELSE "png"),
      empty |-> (f[q] = "png_empty")] : q \in {x \in RtPositions : f[x] # "none"}}

NotMade == [created |-> FALSE, pages |-> <<>>, file |-> Absent]
NoDocument == [doc |-> <<>>, streams |-> <<>>]
NotExtracted == [exc |-> None, images |-> <<>>]

\* the PDF images[0].save(save_all=True, append_images=images[1:]) writes:
\* one page for each image, in the order of the list, each page naming the
\* one image stream written for it; streams[x] is the file stream x came from
WrittenPdf(files) ==
    [doc |-> [k \in 1..Len(files) |-> <<k>>], streams |-> files]

\* what extract_image and the conversion give for a stream written by PIL
\* from an RGB image: a JPEG stream, converted to PNG
WrittenOutcomes(doc) == [q \in Positions(doc) |-> "png"]

RtIdle ==
    /\ rtPc = "idle"
    /\ rtDir = {}
    /\ rtOrder = <<>>
    /\ rtMade = NotMade
    /\ rtPdf = NoDocument
    /\ rtOut = NotExtracted

RtInit ==
    /\ rtPc = "start"
    /\ \E f \in [RtPositions -> RtKinds] : rtDir = RtDirOf(f)
    /\ rtOrder = <<>>
    /\ rtMade = NotMade
    /\ rtPdf = NoDocument
    /\ rtOut = NotExtracted

\* create_watermarked_pdf(original_pdf_path, watermarked_images_dir, output)
CreatePdf ==
    /\ rtPc = "start"
    /\ \E order \in SortedOrders({f \in rtDir : f.name.ext \in PdfImageExts}),
          saveOk \in BOOLEAN, partial \in BOOLEAN :
          LET c == create_watermarked_pdf(rtDir, order, saveOk, partial)
          IN /\ rtOrder' = order
             /\ rtMade' = c
             /\ rtPdf' = IF c.created THEN WrittenPdf(c.pages) ELSE NoDocument
    /\ rtPc' = "created"
    /\ UNCHANGED <<rtDir, rtOut>>
    /\ UNCHANGED exceptRt

\* extract_images_from_pdf(output_pdf_path, output_dir); a file that is not
\* there or was left unfinished does not open
ReExtract ==
    /\ rtPc = "created"
    /\ rtOut' = extract_images_from_pdf(rtPdf.doc, rtMade.created,
                                        WrittenOutcomes(rtPdf.doc))
    /\ rtPc' = "extracted"
    /\ UNCHANGED <<rtDir, rtOrder, rtMade, rtPdf>>
    /\ UNCHANGED exceptRt

----------------------------------------------------------------------------
(* Two /embed_docx requests served at the same time.  Request r draws the  *)
(* uuid4 values r; a name without a uuid carries the id 0.                 *)

Runs == {1, 2}

Dir(base, id) == [base |-> base, id |-> id]
UploadFolder == Dir("uploads", 0)
GeneratedFolder == Dir("generated", 0)
\* os.path.join(GENERATED_FOLDER, "original_images") and "stego_images"
OriginalImagesDir == Dir("original_images", 0)
StegoImagesDir == Dir("stego_images", 0)
\* pdf_work_{uuid}
PdfWorkDir(r) == Dir("pdf_work", r)

PathOf(dir, stem, id) == [dir |-> dir, stem |-> stem, id |-> id]

\* the files under fs other than the one at path, and the one r writes there
WriteFile(fs, path, r) == {f \in fs : f.path # path} \cup {[path |-> path, by |-> r]}

\* the files of requests other than r, still running, among fs
ForeignLive(fs, r) == {f \in fs : f.by # r /\ ccPc[f.by] # "done"}

\* what r does to the files fs of other requests
Touch(fs, r, op) == {[actor |-> r, owner |-> f.by, op |-> op] : f \in ForeignLive(fs, r)}

\* the path extract_images_from_docx writes an image to in dir: main.py is
\* not among the sources, so the name is either the same for every request
\* or unique to the request
ExtractedPath(dir, r) ==
    PathOf(dir, "image", IF ccNames = "by_index" THEN 0 ELSE r)

NothingHeld == [original |-> {}, stego |-> {}]

CcIdle ==
    /\ ccPc = [r \in Runs |-> "idle"]
    /\ ccKind = [r \in Runs |-> "pdf"]
    /\ ccNames = "by_index"
    /\ ccFiles = {}
    /\ ccHeld = [r \in Runs |-> NothingHeld]
    /\ ccMetrics = [r \in Runs |-> "none"]
    /\ ccForeign = {}

CcInit ==
    /\ ccPc = [r \in Runs |-> "start"]
    /\ ccKind \in [Runs -> {"pdf", "docx"}]
    /\ ccNames \in {"by_index", "by_uuid"}
    /\ ccFiles = {}
    /\ ccHeld = [r \in Runs |-> NothingHeld]
    /\ ccMetrics = [r \in Runs |-> "none"]
    /\ ccForeign = {}

\* docx_file.save(docx_temp_path); qr_file.save(qr_temp_path)
SaveUploads(r) ==
    /\ ccPc[r] = "start"
    /\ ccFiles' = WriteFile(WriteFile(ccFiles, PathOf(UploadFolder, "doc_embed_in", r), r),
                            PathOf(UploadFolder, "qr_embed_in", r), r)
    /\ ccPc' = [ccPc EXCEPT ![r] = "process"]
    /\ UNCHANGED <<ccKind, ccNames, ccHeld, ccMetrics, ccForeign>>
    /\ UNCHANGED exceptCc

\* the PDF branch: the work directory pdf_work_{uuid}, and on success the
\* copy to stego_doc_{uuid}.pdf
ProcessPdf(r) ==
    /\ ccPc[r] = "process"
    /\ ccKind[r] = "pdf"
    /\ \E ok \in BOOLEAN :
          IF ok
          THEN /\ ccFiles' = WriteFile(WriteFile(ccFiles,
                                 PathOf(PdfWorkDir(r), "watermarked_output", 0), r),
                                 PathOf(GeneratedFolder, "stego_doc", r), r)
               /\ ccPc' = [ccPc EXCEPT ![r] = "remove_temp"]
          ELSE /\ ccFiles' = ccFiles
               /\ ccPc' = [ccPc EXCEPT ![r] = "failed"]
    /\ UNCHANGED <<ccKind, ccNames, ccHeld, ccMetrics, ccForeign>>
    /\ UNCHANGED exceptCc

\* the DOCX branch: main.py writes --output stego_doc_{uuid}.docx
ProcessDocx(r) ==
    /\ ccPc[r] = "process"
    /\ ccKind[r] = "docx"
    /\ \E ok \in BOOLEAN :
          IF ok
          THEN /\ ccFiles' = WriteFile(ccFiles, PathOf(GeneratedFolder, "stego_doc", r), r)
               /\ ccPc' = [ccPc EXCEPT ![r] = "extract_original"]
          ELSE /\ ccFiles' = ccFiles
               /\ ccPc' = [ccPc EXCEPT ![r] = "failed"]
    /\ UNCHANGED <<ccKind, ccNames, ccHeld, ccMetrics, ccForeign>>
    /\ UNCHANGED exceptCc

\* calculate_metrics: extract_images_from_docx(original_docx_path,
\* original_images_dir); the document holds one image or none
ExtractOriginal(r) ==
    /\ ccPc[r] = "extract_original"
    /\ \E found \in BOOLEAN :
          LET path == ExtractedPath(OriginalImagesDir, r)
          IN IF found
             THEN /\ ccFiles' = WriteFile(ccFiles, path, r)
                  /\ ccHeld' = [ccHeld EXCEPT ![r].original = {path}]
                  /\ ccForeign' = ccForeign \cup
                        Touch({f \in ccFiles : f.path = path}, r, "overwrite")
             ELSE UNCHANGED <<ccFiles, ccHeld, ccForeign>>
    /\ ccPc' = [ccPc EXCEPT ![r] = "extract_stego"]
    /\ UNCHANGED <<ccKind, ccNames, ccMetrics>>
    /\ UNCHANGED exceptCc

\* calculate_metrics: extract_images_from_docx(stego_docx_path,
\* stego_images_dir), then the return without cleanup when a list is empty
ExtractStego(r) ==
    /\ ccPc[r] = "extract_stego"
    /\ \E found \in BOOLEAN :
          LET path == ExtractedPath(StegoImagesDir, r)
          IN /\ IF found
                THEN /\ ccFiles' = WriteFile(ccFiles, path, r)
                     /\ ccHeld' = [ccHeld EXCEPT ![r].stego = {path}]
                     /\ ccForeign' = ccForeign \cup
                           Touch({f \in ccFiles : f.path = path}, r, "overwrite")
                ELSE UNCHANGED <<ccFiles, ccHeld, ccForeign>>
             /\ IF found /\ ccHeld[r].original # {}
                THEN /\ ccPc' = [ccPc EXCEPT ![r] = "compare"]
                     /\ UNCHANGED ccMetrics
                ELSE /\ ccPc' = [ccPc EXCEPT ![r] = "remove_temp"]
                     /\ ccMetrics' = [ccMetrics EXCEPT ![r] = "error"]
    /\ UNCHANGED <<ccKind, ccNames>>
    /\ UNCHANGED exceptCc

\* calculate_metrics: Image.open of the pair of paths; a missing file raises
\* inside the loop and the pair is left out
ComparePair(r) ==
    /\ ccPc[r] = "compare"
    /\ LET paths == ccHeld[r].original \cup ccHeld[r].stego
           there == {f \in ccFiles : f.path \in paths}
       IN /\ ccForeign' = ccForeign \cup Touch(there, r, "read")
          /\ ccMetrics' = [ccMetrics EXCEPT ![r] =
                              IF {f.path : f \in there} = paths THEN "compared"
                              ELSE "pair_left_out"]
    /\ ccPc' = [ccPc EXCEPT ![r] = "remove_original_dir"]
    /\ UNCHANGED <<ccKind, ccNames, ccFiles, ccHeld>>
    /\ UNCHANGED exceptCc

\* calculate_metrics: shutil.rmtree(original_images_dir)
RemoveOriginalDir(r) ==
    /\ ccPc[r] = "remove_original_dir"
    /\ ccFiles' = {f \in ccFiles : f.path.dir # OriginalImagesDir}
    /\ ccForeign' = ccForeign \cup
          Touch({f \in ccFiles : f.path.dir = OriginalImagesDir}, r, "delete")
    /\ ccPc' = [ccPc EXCEPT ![r] = "remove_stego_dir"]
    /\ UNCHANGED <<ccKind, ccNames, ccHeld, ccMetrics>>
    /\ UNCHANGED exceptCc

\* calculate_metrics: shutil.rmtree(stego_images_dir)
RemoveStegoDir(r) ==
    /\ ccPc[r] = "remove_stego_dir"
    /\ ccFiles' = {f \in ccFiles : f.path.dir # StegoImagesDir}
    /\ ccForeign' = ccForeign \cup
          Touch({f \in ccFiles : f.path.dir = StegoImagesDir}, r, "delete")
    /\ ccPc' = [ccPc EXCEPT ![r] = "remove_temp"]
    /\ UNCHANGED <<ccKind, ccNames, ccHeld, ccMetrics>>
    /\ UNCHANGED exceptCc

\* os.remove(docx_temp_path); os.remove(qr_temp_path), after the metrics or
\* after a failure
RemoveTemp(r) ==
    /\ ccPc[r] \in {"remove_temp", "failed"}
    /\ LET temps == {PathOf(UploadFolder, "doc_embed_in", r),
                     PathOf(UploadFolder, "qr_embed_in", r)}
       IN /\ ccFiles' = {f \in ccFiles : f.path \notin temps}
          /\ ccForeign' = ccForeign \cup
                Touch({f \in ccFiles : f.path \in temps}, r, "delete")
    /\ ccPc' = [ccPc EXCEPT ![r] = "done"]
    /\ UNCHANGED <<ccKind, ccNames, ccHeld, ccMetrics>>
    /\ UNCHANGED exceptCc

----------------------------------------------------------------------------
(* extract_watermark_from_pdf_real_images                                  *)

\* images extract_images_from_pdf may hand to the loop
MaxCover == 3

\* what the pass over one image meets: extract_qr_from_image raised, wrote
\* no file, wrote a file PIL cannot open, wrote an image of size zero, or
\* wrote the raster of the bit-plane
QrOutcomes == {"raises", "no_file", "invalid_file", "empty_image", "written"}

\* an extracted image: whether a QR symbol can be decoded from its blue
\* bit-plane, and the outcome of the pass.  extract_qr_from_image
\* (lsb_steganography.py) writes the bit-plane as a raster; it detects no
\* symbol, so the two are independent
CoverFacts == [decodable : BOOLEAN, how : QrOutcomes]

QrEntry(i) == [image_index |-> i, exists |-> TRUE]

RECURSIVE QrLoop(_, _)
\* extracted_qrs after the passes over images i, i + 1, ...
QrLoop(images, i) ==
    IF i > Len(images) THEN <<>>
    ELSE (IF images[i].how = "written" THEN <<QrEntry(i)>> ELSE <<>>)
         \o QrLoop(images, i + 1)

NoXqResult == [success |-> FALSE, extracted_qrs |-> <<>>, total_images |-> 0, qr_found |-> 0]

\* the dict extract_watermark_from_pdf_real_images returns for the images the
\* extraction gave, or the exception it raises when there are none
extract_watermark_from_pdf_real_images(images) ==
    IF images = <<>>
    THEN [exc |-> "NO_IMAGES_FOUND", result |-> NoXqResult]
    ELSE LET extracted_qrs == QrLoop(images, 1)
         IN [exc |-> None,
             result |-> [success |-> TRUE, extracted_qrs |-> extracted_qrs,
                         total_images |-> Len(images),
                         qr_found |-> Len(extracted_qrs)]]

XqIdle ==
    /\ xqPc = "idle"
    /\ xqImages = <<>>
    /\ xqResult = NoXqResult
    /\ xqRaised = None

XqInit ==
    /\ xqPc = "start"
    /\ xqImages \in UNION {[1..n -> CoverFacts] : n \in 0..MaxCover}
    /\ xqResult = NoXqResult
    /\ xqRaised = None

\* one call of extract_watermark_from_pdf_real_images
ExtractWatermarks ==
    /\ xqPc = "start"
    /\ LET r == extract_watermark_from_pdf_real_images(xqImages)
       IN /\ xqResult' = r.result
          /\ xqRaised' = r.exc
    /\ xqPc' = "returned"
    /\ UNCHANGED xqImages
    /\ UNCHANGED exceptXq

----------------------------------------------------------------------------
(* safe_subprocess_run                                                     *)

\* exit codes of a command
MaxExit == 3

\* how subprocess.run(check=True, capture_output=True, text=True) ends: the
\* command exits with a code, the executable is not found, it may not be
\* executed, or its output cannot be decoded
RunEndings == {"exited", "FileNotFoundError", "PermissionError", "UnicodeDecodeError"}

\* captured output: empty or not
Outputs == {<<>>, <<"out">>}

CommandRuns ==
    [platform : {"win32", "linux"}, ending : RunEndings, code : 0..MaxExit,
     stdout : Outputs, stderr : Outputs]

\* (mutant) safe_subprocess_run without its last except clause
safe_subprocess_run_NoCatchAll(run) ==
    IF run.ending = "exited"
    THEN IF run.code = 0
         THEN [exc |-> None,
               ret |-> [success |-> TRUE, stdout |-> run.stdout, stderr |-> run.stderr]]
         ELSE [exc |-> None,
               ret |-> [success |-> FALSE, stdout |-> run.stdout, stderr |-> run.stderr,
                        error |-> <<"CalledProcessError">>]]
    ELSE IF run.ending = "FileNotFoundError"
    THEN [exc |-> None,
          ret |-> [success |-> FALSE, stdout |-> <<>>,
                   stderr |-> <<"File", "tidak", "ditemukan">>,
                   error |-> <<"File", "tidak", "ditemukan">>]]
    ELSE [exc |-> run.ending, ret |-> [success |-> FALSE]]

\* safe_subprocess_run(command): both platform branches call subprocess.run
\* with check=True and differ in the encoding only
safe_subprocess_run(run) ==
    IF run.ending = "exited"
    THEN IF run.code = 0
         THEN [exc |-> None,
               ret |-> [success |-> TRUE, stdout |-> run.stdout, stderr |-> run.stderr]]
         ELSE \* CalledProcessError
              [exc |-> None,
               ret |-> [success |-> FALSE, stdout |-> run.stdout, stderr |-> run.stderr,
                        error |-> <<"CalledProcessError">>]]
    ELSE IF run.ending = "FileNotFoundError"
    THEN [exc |-> None,
          ret |-> [success |-> FALSE, stdout |-> <<>>,
                   stderr |-> <<"File", "tidak", "ditemukan">>,
                   error |-> <<"File", "tidak", "ditemukan">>]]
    ELSE \* except Exception
         [exc |-> None,
          ret |-> [success |-> FALSE, stdout |-> <<>>,
                   stderr |-> <<"Exception", "saat", "menjalankan", "skrip">>,
                   error |-> <<"Exception", "saat", "menjalankan", "skrip">>]]

NoRun == [platform |-> "linux", ending |-> "exited", code |-> 0,
          stdout |-> <<>>, stderr |-> <<>>]
NotRun == [exc |-> None, ret |-> [success |-> FALSE]]

SpIdle ==
    /\ spPc = "idle"
    /\ spRun = NoRun
    /\ spRes = NotRun

SpInit ==
    /\ spPc = "start"
    /\ spRun \in CommandRuns
    /\ spRes = NotRun

\* one call of safe_subprocess_run
RunCommand ==
    /\ spPc = "start"
    /\ spRes' = safe_subprocess_run(spRun)
    /\ spPc' = "returned"
    /\ UNCHANGED spRun
    /\ UNCHANGED exceptSp

----------------------------------------------------------------------------
(* get_size_recommendation and analyze_file_size_impact                    *)

\* sizes of a file in bytes
MaxSize == 110

\* abs(1 - ratio) * 100 < t for ratio = n / d in double precision: the
\* quotient n / d is correctly rounded, and of the ratios that put the exact
\* value on a threshold (0.99, 1.01, 0.95, 1.05, 0.9, 1.1) only 0.9 is
\* rounded across it: 1 - 0.9 is 0.09999999999999998, so the product is
\* 9.999999999999998
AbsChangeBelow(n, d, t) ==
    IF 10 * n = 9 * d THEN t >= 10
    ELSE (IF n >= d THEN n - d ELSE d - n) * 100 < t * d

\* (mutant) the change taken with its sign: (ratio - 1) * 100
AbsChangeBelow_Signed(n, d, t) == (n - d) * 100 < t * d

\* (mutant) get_size_recommendation without abs()
get_size_recommendation_Signed(ratio) ==
    IF AbsChangeBelow_Signed(ratio[1], ratio[2], 1) THEN [status |-> "excellent"]
    ELSE IF AbsChangeBelow_Signed(ratio[1], ratio[2], 5) THEN [status |-> "good"]
    ELSE IF AbsChangeBelow_Signed(ratio[1], ratio[2], 10) THEN [status |-> "fair"]
    ELSE [status |-> "poor"]

\* get_size_recommendation(compression_ratio) for the ratio <<n, d>>
get_size_recommendation(ratio) ==
    IF AbsChangeBelow(ratio[1], ratio[2], 1) THEN [status |-> "excellent"]
    ELSE IF AbsChangeBelow(ratio[1], ratio[2], 5) THEN [status |-> "good"]
    ELSE IF AbsChangeBelow(ratio[1], ratio[2], 10) THEN [status |-> "fair"]
    ELSE [status |-> "poor"]

\* a file of n bytes, and a path with no file
FileOf(n) == [exists |-> TRUE, size |-> n]
NoFile == [exists |-> FALSE, size |-> 0]

\* analyze_file_size_impact(original_path, processed_path) for the files at
\* the two paths (os.path.getsize raises when there is none)
analyze_file_size_impact(original_file, processed_file) ==
    IF ~original_file.exists \/ ~processed_file.exists
    THEN [exc |-> None,
          ret |-> [error |-> "FileNotFoundError",
                   recommendation |-> [status |-> "error"]]]
    ELSE LET original_size == original_file.size
             processed_size == processed_file.size
             compression_ratio == IF original_size > 0
                                  THEN <<processed_size, original_size>>
                                  ELSE <<1, 1>>
         IN [exc |-> None,
             ret |-> [original_size |-> original_size, processed_size |-> processed_size,
                      size_change_ratio |-> compression_ratio,
                      recommendation |-> get_size_recommendation(compression_ratio)]]

NotAnalysed == [exc |-> None, ret |-> [pending |-> TRUE]]

FsIdle ==
    /\ fsPc = "idle"
    /\ fsOriginal = NoFile
    /\ fsProcessed = NoFile
    /\ fsRes = NotAnalysed

FsInit ==
    /\ fsPc = "start"
    /\ fsOriginal \in {NoFile} \cup {FileOf(n) : n \in {0, 10, 100}}
    /\ fsProcessed \in {NoFile} \cup {FileOf(n) : n \in 0..MaxSize}
    /\ fsRes = NotAnalysed

\* one call of analyze_file_size_impact
AnalyseSizes ==
    /\ fsPc = "start"
    /\ fsRes' = analyze_file_size_impact(fsOriginal, fsProcessed)
    /\ fsPc' = "returned"
    /\ UNCHANGED <<fsOriginal, fsProcessed>>
    /\ UNCHANGED exceptFs

----------------------------------------------------------------------------
(* calculate_metrics                                                       *)

\* images of a document
MaxPairs == 3
\* mse of a pair of images of equal size
MaxMse == 2

\* a pair of the zip: the two images have equal size and the mse given, or
\* their sizes differ (continue), or Image.open raises (caught in the loop)
PairFacts ==
    [how : {"compared"}, mse : 0..MaxMse]
       \cup [how : {"size_mismatch", "read_error"}, mse : {0}]

\* the pairs of the loop that reach total_mse and all_psnr_values
ComparedPairs(prs) == {k \in 1..Len(prs) : prs[k].how = "compared"}

\* total_mse after the loop
TotalMse(prs) ==
    SeqSum([k \in 1..Len(prs) |-> IF prs[k].how = "compared" THEN prs[k].mse ELSE 0])

\* final_psnr: 0 for no value; float('inf') when a value is float('inf'),
\* replaced by the string "Infinity"; otherwise the mean of the finite values
FinalPsnr(prs) ==
    IF ComparedPairs(prs) = {} THEN [kind |-> "number", of |-> <<>>]
    ELSE IF \E k \in ComparedPairs(prs) : prs[k].mse = 0
    THEN [kind |-> "Infinity", of |-> <<>>]
    ELSE [kind |-> "number",
          of |-> [k \in 1..Len(prs) |->
                    IF prs[k].how = "compared" THEN prs[k].mse ELSE 0]]

MetricsError(msg) == [mse |-> None, psnr |-> None, error |-> msg]

\* calculate_metrics(original_docx_path, stego_docx_path) for the pairs of
\* the original images with the stego images, stego of them extracted;
\* mse is the fraction <<total_mse, len(original_images)>>
calculate_metrics(prs, stego) ==
    IF prs = <<>> \/ stego = 0
    THEN MetricsError("Gagal mengekstrak gambar dari dokumen.")
    ELSE IF Len(prs) # stego
    THEN MetricsError("Jumlah gambar tidak sama.")
    ELSE [mse |-> <<TotalMse(prs), Len(prs)>>, psnr |-> FinalPsnr(prs),
          error |-> None]

CmIdle ==
    /\ cmPc = "idle"
    /\ cmPairs = <<>>
    /\ cmStego = 0
    /\ cmRes = MetricsError("none")

CmInit ==
    /\ cmPc = "start"
    /\ cmPairs \in UNION {[1..n -> PairFacts] : n \in 0..MaxPairs}
    /\ cmStego \in {0, Len(cmPairs), Len(cmPairs) + 1}
    /\ cmRes = MetricsError("none")

\* one call of calculate_metrics
CalculateMetrics ==
    /\ cmPc = "start"
    /\ cmRes' = calculate_metrics(cmPairs, cmStego)
    /\ cmPc' = "returned"
    /\ UNCHANGED <<cmPairs, cmStego>>
    /\ UNCHANGED exceptCm

----------------------------------------------------------------------------
(* embed_watermark_to_pdf_via_docx.  A path is its stem and its tail.      *)

PathTails == {".pdf", ".PDF"}

\* path.replace('.pdf', tail): the tail is exchanged when it is '.pdf'
ReplacePdf(path, tail) == IF path.tail = ".pdf" THEN [path EXCEPT !.tail = tail] ELSE path

temp_docx_path(pdf_path) == ReplacePdf(pdf_path, "_temp.docx")
watermarked_docx_path(pdf_path) == ReplacePdf(pdf_path, "_watermarked.docx")
OutputPdfPath == [stem |-> "out", tail |-> ".pdf"]

\* what a converter of a library did: whether it wrote its output file and
\* whether it raised
ConvertRuns == [wrote : BOOLEAN, raised : BOOLEAN]

\* a converter given an input file that is not there raises and writes nothing
RunsOn(disk, input) ==
    IF input \in disk THEN ConvertRuns ELSE {[wrote |-> FALSE, raised |-> TRUE]}

\* convert_pdf_to_docx(pdf_path, docx_output_path) and
\* convert_docx_to_pdf(docx_path, pdf_output_path): success when the
\* converter returned and the output file exists
Convert(run, disk, output) ==
    LET d == IF run.wrote THEN disk \cup {output} ELSE disk
    IN [disk |-> d, success |-> ~run.raised /\ output \in d]

\* how embed_watermark_to_docx ended: a dict with success true or false, a
\* ValueError with the text NO_IMAGES_FOUND or another text, another exception
EmbedEndings == {"success", "failure", "no_images", "value_error", "exception"}

ViaDocxSteps == <<"pdf_to_docx", "watermark_embed", "docx_to_pdf">>

\* a step that ran: whether it wrote its output file and how it ended
StepRun(step, wrote, ending) == [step |-> step, wrote |-> wrote, ending |-> ending]

NoViaResult == [success |-> FALSE, error_type |-> "unset", step |-> None]
ViaFailure(error_type, step) ==
    [success |-> FALSE, error_type |-> error_type, step |-> step]
ViaSuccess == [success |-> TRUE, error_type |-> None, step |-> None]

\* the two os.remove of the cleanup, each under os.path.exists
RemoveTempFiles(disk, pdf_path) ==
    disk \ {temp_docx_path(pdf_path), watermarked_docx_path(pdf_path)}

\* the disk a return for a failed step leaves
StepFailureDisk(disk, pdf_path) == disk

VdIdle ==
    /\ vdPc = "idle"
    /\ vdPath = OutputPdfPath
    /\ vdDisk = {}
    /\ vdSteps = <<>>
    /\ vdRes = NoViaResult

\* the PDF is on disk, with what an earlier call for the same paths left
VdInit ==
    /\ vdPc = "step1"
    /\ vdPath \in [stem : {"doc"}, tail : PathTails]
    /\ vdDisk \in {{vdPath} \cup left :
                       left \in SUBSET {OutputPdfPath, temp_docx_path(vdPath),
                                        watermarked_docx_path(vdPath)}}
    /\ vdSteps = <<>>
    /\ vdRes = NoViaResult

\* step 1: convert_pdf_to_docx(pdf_path, temp_docx_path)
PdfToDocx ==
    /\ vdPc = "step1"
    /\ \E run \in RunsOn(vdDisk, vdPath) :
          LET c == Convert(run, vdDisk, temp_docx_path(vdPath))
          IN /\ vdSteps' = Append(vdSteps, StepRun("pdf_to_docx", run.wrote,
                                   IF run.raised THEN "raised" ELSE "returned"))
             /\ IF c.success
                THEN /\ vdDisk' = c.disk
                     /\ vdPc' = "step2"
                     /\ UNCHANGED vdRes
                ELSE /\ vdDisk' = StepFailureDisk(c.disk, vdPath)
                     /\ vdPc' = "returned"
                     /\ vdRes' = ViaFailure("PDF_TO_DOCX_FAILED", "pdf_to_docx")
    /\ UNCHANGED vdPath
    /\ UNCHANGED exceptVd

\* step 2: embed_watermark_to_docx(temp_docx_path, qr_path, watermarked_docx_path)
EmbedIntoDocx ==
    /\ vdPc = "step2"
    /\ \E end \in EmbedEndings, wrote \in BOOLEAN :
          LET d == IF wrote THEN vdDisk \cup {watermarked_docx_path(vdPath)}
                   ELSE vdDisk
          IN /\ vdSteps' = Append(vdSteps, StepRun("watermark_embed", wrote, end))
             /\ CASE end = "success" ->
                       /\ vdDisk' = d
                       /\ vdPc' = "step3"
                       /\ UNCHANGED vdRes
                  [] end = "failure" ->
                       /\ vdDisk' = StepFailureDisk(d, vdPath)
                       /\ vdPc' = "returned"
                       /\ vdRes' = ViaFailure("WATERMARK_EMBED_FAILED", "watermark_embed")
                  [] end = "no_images" ->
                       /\ vdDisk' = StepFailureDisk(d, vdPath)
                       /\ vdPc' = "returned"
                       /\ vdRes' = ViaFailure("NO_IMAGES_FOUND", "watermark_embed")
                  [] end = "value_error" ->
                       /\ vdDisk' = StepFailureDisk(d, vdPath)
                       /\ vdPc' = "returned"
                       /\ vdRes' = ViaFailure("WATERMARK_EMBED_ERROR", "watermark_embed")
                  [] end = "exception" ->
                       /\ vdDisk' = RemoveTempFiles(d, vdPath)
                       /\ vdPc' = "returned"
                       /\ vdRes' = ViaFailure("GENERAL_ERROR", None)
    /\ UNCHANGED vdPath
    /\ UNCHANGED exceptVd

\* step 3: convert_docx_to_pdf(watermarked_docx_path, output_pdf_path)
DocxToPdf ==
    /\ vdPc = "step3"
    /\ \E run \in RunsOn(vdDisk, watermarked_docx_path(vdPath)) :
          LET c == Convert(run, vdDisk, OutputPdfPath)
          IN /\ vdSteps' = Append(vdSteps, StepRun("docx_to_pdf", run.wrote,
                                   IF run.raised THEN "raised" ELSE "returned"))
             /\ IF c.success
                THEN /\ vdDisk' = c.disk
                     /\ vdPc' = "cleanup"
                     /\ UNCHANGED vdRes
                ELSE /\ vdDisk' = StepFailureDisk(c.disk, vdPath)
                     /\ vdPc' = "returned"
                     /\ vdRes' = ViaFailure("DOCX_TO_PDF_FAILED", "docx_to_pdf")
    /\ UNCHANGED vdPath
    /\ UNCHANGED exceptVd

\* the cleanup after step 3, the two os.path.getsize and the return; a
\* getsize of a file that is gone raises into the outer handler
FinishViaDocx ==
    /\ vdPc = "cleanup"
    /\ vdDisk' = RemoveTempFiles(vdDisk, vdPath)
    /\ vdRes' = IF vdPath \in vdDisk' /\ OutputPdfPath \in vdDisk'
                THEN ViaSuccess
                ELSE ViaFailure("GENERAL_ERROR", None)
    /\ vdPc' = "returned"
    /\ UNCHANGED <<vdPath, vdSteps>>
    /\ UNCHANGED exceptVd

----------------------------------------------------------------------------
(* The routes and the upload, generated and documents folders.  A file     *)
(* name is the sequence of its pieces between dots: "a.pdf" is             *)
(* <<"a", "pdf">>, the empty name is <<"">>.                               *)

\* requests in a run
MaxRequests == 2

\* a field that is not in request.files
Missing == <<>>

DocNames == {<<"">>, <<"a">>, <<"a", "txt">>, <<"a", "docx">>, <<"a", "pdf">>,
             <<"a", "PDF">>}
QrNames == {<<"">>, <<"q", "png">>, <<"q", "jpg">>}

ALLOWED_DOCX_EXTENSIONS == {"docx", "pdf"}
ALLOWED_IMAGE_EXTENSIONS == {"png"}

\* str.lower() of an extension
Lower(piece) ==
    CASE piece = "PDF" -> "pdf"
      [] piece = "DOCX" -> "docx"
      [] piece = "PNG" -> "png"
      [] OTHER -> piece

\* filename.rsplit('.', 1)[1].lower()
FileExtension(filename) == Lower(filename[Len(filename)])

\* allowed_file(filename, allowed_extensions)
allowed_file(filename, allowed_extensions) ==
    Len(filename) > 1 /\ FileExtension(filename) \in allowed_extensions

\* the validation of /embed_docx: the reason of its 400, or None
EmbedRejection(doc, qr) ==
    IF doc = Missing \/ qr = Missing THEN "fields"
    ELSE IF doc = <<"">> \/ qr = <<"">> THEN "empty_name"
    ELSE IF ~allowed_file(doc, ALLOWED_DOCX_EXTENSIONS) THEN "document_format"
    ELSE IF ~allowed_file(qr, ALLOWED_IMAGE_EXTENSIONS) THEN "qr_format"
    ELSE None

\* the validation of /extract_docx
ExtractRejection(doc) ==
    IF doc = Missing THEN "fields"
    ELSE IF doc = <<"">> THEN "empty_name"
    ELSE IF ~allowed_file(doc, ALLOWED_DOCX_EXTENSIONS) THEN "document_format"
    ELSE None

\* the validation of /validate_qr_integrity
ValidateRejection(qr) ==
    IF qr = Missing THEN "fields"
    ELSE IF qr = <<"">> THEN "empty_name"
    ELSE None

TempFile(n, field) == [req |-> n, field |-> field]
Made(n, what) == [req |-> n, what |-> what]
Call(n, fn) == [req |-> n, fn |-> fn]

\* (mutant) a route that saves its uploads before it validates the request
SavedUploads_BeforeValidation(rejection, files) == files

\* the uploads a route has saved: none when the validation returned its 400
SavedUploads(rejection, files) == IF rejection # None THEN {} ELSE files

Response(n, route, status, stage) ==
    [req |-> n, route |-> route, status |-> status, stage |-> stage]

\* how the processing of an accepted /embed_docx request goes.  PDF: the
\* result of embed_watermark_to_pdf_real_images has success true or not.
\* DOCX: run_main_script fails, with or without NO_IMAGES_FOUND in stderr,
\* or succeeds; after its success embed_watermark_to_docx raises
\* ValueError("NO_IMAGES_FOUND") or does not
EmbedHows(is_pdf) ==
    IF is_pdf THEN {"success", "failed"}
    ELSE {"success", "script_failed", "script_no_images", "no_images"}

\* the uploads still in the folder when /embed_docx returns: the return for
\* ValueError("NO_IMAGES_FOUND") removes nothing
KeptUploads(how, saved) == IF how = "no_images" THEN saved ELSE {}

\* the status /embed_docx answers with
EmbedStatus(how) ==
    CASE how = "success" -> 200
      [] how \in {"script_no_images", "no_images"} -> 400
      [] OTHER -> 500

\* what the processing of /embed_docx leaves in the generated folder
EmbedGenerated(n, is_pdf, how) ==
    (IF is_pdf THEN {Made(n, "pdf_work")} ELSE {})
       \cup (IF how \in {"success", "no_images"} THEN {Made(n, "stego_doc")} ELSE {})

\* the processing functions /embed_docx calls
EmbedCalls(n, is_pdf, how) ==
    IF is_pdf THEN {Call(n, "embed_watermark_to_pdf_real_images")}
    ELSE {Call(n, "run_main_script")}
            \cup (IF how \in {"success", "no_images"}
                  THEN {Call(n, "embed_watermark_to_docx")} ELSE {})
            \cup (IF how = "success" THEN {Call(n, "calculate_metrics")} ELSE {})

\* the file shutil.copy2 writes to documents_output_path
DocumentOf(n, ext) == [req |-> n, ext |-> ext, created |-> n]

\* the earlier document of the folder a server may start with
EarlierDocument == DocumentOf(0, "docx")

\* sorted(key = created, reverse = True)
RECURSIVE NewestFirst(_)
NewestFirst(docs) ==
    IF docs = {} THEN <<>>
    ELSE LET d == CHOOSE d \in docs : \A e \in docs : e.created <= d.created
         IN <<d>> \o NewestFirst(docs \ {d})

\* the file names of os.listdir that list_documents keeps
ListedNames(docs) == {d \in docs : d.ext = "docx"}

\* the JSON of /list_documents
list_documents(docs) ==
    [listed |-> TRUE, documents |-> NewestFirst(ListedNames(docs)),
     count |-> Cardinality(ListedNames(docs))]

NotListed == [listed |-> FALSE, documents |-> <<>>, count |-> 0]
NotAnswered == Response(0, "none", 0, "none")

SvIdle ==
    /\ svN = MaxRequests
    /\ svUploads = {}
    /\ svGenerated = {}
    /\ svDocs = {}
    /\ svCalls = {}
    /\ svLast = NotAnswered
    /\ svList = NotListed

\* a server that starts with empty upload and generated folders
SvInit ==
    /\ svN = 0
    /\ svUploads = {}
    /\ svGenerated = {}
    /\ svDocs \in {{}, {EarlierDocument}}
    /\ svCalls = {}
    /\ svLast = NotAnswered
    /\ svList = NotListed

\* one request to /embed_docx
EmbedRequest ==
    /\ svN < MaxRequests
    /\ \E doc \in {Missing} \cup DocNames, qr \in {Missing} \cup QrNames :
          LET n == svN + 1
              rejection == EmbedRejection(doc, qr)
              saved == SavedUploads(rejection,
                                    {TempFile(n, "docx"), TempFile(n, "qr")})
          IN IF rejection # None
             THEN /\ svUploads' = svUploads \cup saved
                  /\ svLast' = Response(n, "embed_docx", 400, "validation")
                  /\ UNCHANGED <<svGenerated, svDocs, svCalls>>
             ELSE \E how \in EmbedHows(FileExtension(doc) = "pdf"), copied \in BOOLEAN :
                     LET ext == FileExtension(doc)
                     IN /\ svUploads' = svUploads \cup KeptUploads(how, saved)
                        /\ svGenerated' =
                              svGenerated \cup EmbedGenerated(n, ext = "pdf", how)
                        /\ svCalls' = svCalls \cup EmbedCalls(n, ext = "pdf", how)
                        /\ svDocs' = IF how = "success" /\ copied
                                     THEN svDocs \cup {DocumentOf(n, ext)}
                                     ELSE svDocs
                        /\ svLast' = Response(n, "embed_docx", EmbedStatus(how),
                                              "processing")
    /\ svN' = svN + 1
    /\ UNCHANGED svList
    /\ UNCHANGED exceptSv

\* the status /extract_docx answers with: NO_IMAGES_FOUND is in stderr only
\* for a DOCX
ExtractStatus(is_pdf, how) ==
    CASE how = "success" -> 200
      [] how = "no_images" /\ ~is_pdf -> 400
      [] OTHER -> 500

\* one request to /extract_docx
ExtractRequest ==
    /\ svN < MaxRequests
    /\ \E doc \in {Missing} \cup DocNames :
          LET n == svN + 1
              rejection == ExtractRejection(doc)
              saved == SavedUploads(rejection, {TempFile(n, "docx")})
          IN IF rejection # None
             THEN /\ svUploads' = svUploads \cup saved
                  /\ svLast' = Response(n, "extract_docx", 400, "validation")
                  /\ UNCHANGED <<svGenerated, svCalls>>
             ELSE \E how \in {"success", "no_images", "failed"} :
                     LET is_pdf == FileExtension(doc) = "pdf"
                     IN /\ svUploads' = svUploads
                        /\ svGenerated' =
                              IF how = "success"
                              THEN svGenerated \cup {Made(n, "extraction")}
                              ELSE svGenerated
                        /\ svCalls' = svCalls \cup
                              {Call(n, IF is_pdf
                                       THEN "extract_watermark_from_pdf_real_images"
                                       ELSE "run_main_script")}
                        /\ svLast' = Response(n, "extract_docx",
                                              ExtractStatus(is_pdf, how), "processing")
    /\ svN' = svN + 1
    /\ UNCHANGED <<svDocs, svList>>
    /\ UNCHANGED exceptSv

\* one request to /validate_qr_integrity; the finally clause removes the
\* saved file on every path after the save
ValidateRequest ==
    /\ svN < MaxRequests
    /\ \E qr \in {Missing} \cup QrNames :
          LET n == svN + 1
              rejection == ValidateRejection(qr)
              saved == SavedUploads(rejection, {TempFile(n, "validate_qr")})
          IN IF rejection # None
             THEN /\ svUploads' = svUploads \cup saved
                  /\ svLast' = Response(n, "validate_qr_integrity", 400, "validation")
                  /\ UNCHANGED svCalls
             ELSE \E status \in {200, 400, 500} :
                     /\ svUploads' = svUploads
                     /\ svCalls' = svCalls \cup {Call(n, "read_qr")}
                     /\ svLast' = Response(n, "validate_qr_integrity", status,
                                           "processing")
    /\ svN' = svN + 1
    /\ UNCHANGED <<svGenerated, svDocs, svList>>
    /\ UNCHANGED exceptSv

\* one request to /list_documents
ListDocuments ==
    /\ svN < MaxRequests
    /\ svList' = list_documents(svDocs)
    /\ svLast' = Response(svN + 1, "list_documents", 200, "processing")
    /\ svN' = svN + 1
    /\ UNCHANGED <<svUploads, svGenerated, svDocs, svCalls>>
    /\ UNCHANGED exceptSv

----------------------------------------------------------------------------
(* /generate_qr and /validate_qr_integrity                                 *)

\* code points of the payloads sent to /generate_qr: A, the double quote,
\* the digit 1 and e-acute
QrCodePoints == {65, 34, 49, 233}

RECURSIVE QrStrings(_)
\* payloads of at most n characters
QrStrings(n) ==
    IF n = 0 THEN {<<>>}
    ELSE LET shorter == QrStrings(n - 1)
         IN shorter \cup {Append(x, c) : x \in {y \in shorter : Len(y) = n - 1},
                                         c \in QrCodePoints}

\* values of the form field useCrc32 (None: the field is not sent)
UseValues == {"true", "false", None}

NoGenResponse ==
    [status |-> 0, success |-> FALSE, crc32_enabled |-> None, crc32_info |-> None]

NoInfo == [checksum |-> PyNone, data_length |-> 0, integrity_protected |-> FALSE]

\* generate_qr_route for form fields data and use, when the clock reads ts and
\* the QR generator run by run_main_script ends with made (image written)
generate_qr_route(data, use, ts, made) ==
    LET use_crc32 == use = "true"
        data_with_checksum == add_crc32_checksum(data, ts)
        qr_data_final == IF use_crc32 THEN json_dumps(data_with_checksum)
                         ELSE TextOf(data)
        crc32_info == IF use_crc32
                      THEN [checksum |-> data_with_checksum.v.crc32,
                            data_length |-> Len(data),
                            integrity_protected |-> TRUE]
                      ELSE [checksum |-> PyNone, data_length |-> Len(data),
                            integrity_protected |-> FALSE]
    IN  IF data = <<>>
        THEN [text |-> <<>>, info |-> NoInfo,
              resp |-> [status |-> 400, success |-> FALSE, crc32_enabled |-> None,
                        crc32_info |-> None]]
        ELSE IF made
        THEN [text |-> qr_data_final, info |-> crc32_info,
              resp |-> [status |-> 200, success |-> TRUE,
                        crc32_enabled |-> use_crc32, crc32_info |-> crc32_info]]
        ELSE [text |-> qr_data_final, info |-> crc32_info,
              resp |-> [status |-> 500, success |-> FALSE, crc32_enabled |-> None,
                        crc32_info |-> None]]

NoValResponse ==
    [status |-> 0, success |-> FALSE, integrity_check |-> None,
     data_valid |-> None, overall_valid |-> None, data |-> None,
     message |-> "unset"]

\* the response of the except clause at the end of validate_qr_integrity
ValError ==
    [status |-> 500, success |-> FALSE, integrity_check |-> None,
     data_valid |-> None, overall_valid |-> None, data |-> None,
     message |-> "Error validasi"]

\* the response for a text that json.loads rejects
ValLegacy(raw) ==
    [status |-> 200, success |-> TRUE, integrity_check |-> FALSE,
     data_valid |-> None, overall_valid |-> None, data |-> raw,
     message |-> "QR Code format lama (tanpa CRC32 checksum)"]

\* whether time.localtime(x) returns (it raises TypeError for a str or a list)
LocalTimeOk(x) == x.t \in {"int", "bool"}

\* (mutant) validate_qr_integrity without its except json.JSONDecodeError
validate_qr_integrity_NoLegacy(read) ==
    ValError

\* validate_qr_integrity when read_qr gives read: the exception it raised, or
\* the list it returned
validate_qr_integrity(read) ==
    IF read.exc # None THEN ValError
    ELSE IF read.list = <<>>
    THEN [NoValResponse EXCEPT !.status = 400,
                               !.message = "Tidak dapat membaca QR Code"]
    ELSE LET qr_data_raw == read.list[1]
             parsed == json_loads(qr_data_raw)
             validation_result == verify_crc32_checksum(parsed.v).ret
             timestamp == Get(validation_result, "timestamp", PyNone)
             data_valid == Get(validation_result, "data_valid", FALSE)
         IN  IF parsed.exc = "JSONDecodeError" THEN ValLegacy(qr_data_raw)
             ELSE IF Truthy(timestamp) /\ ~LocalTimeOk(timestamp) THEN ValError
             ELSE IF parsed.v.t # "dict"
             THEN \* qr_data_parsed.get raises AttributeError
                  ValError
             ELSE [status |-> 200, success |-> TRUE, integrity_check |-> TRUE,
                   data_valid |-> data_valid,
                   overall_valid |-> Get(validation_result, "valid", FALSE),
                   data |-> parsed.v.v.data,
                   message |-> IF data_valid THEN "Data valid"
                               ELSE "Data rusak/dimodifikasi"]

\* the payload the QR images made elsewhere carry
ForeignData == PyStr(<<65>>)

\* the envelope of ForeignData
ForeignEnvelope == add_crc32_checksum(ForeignData.v, Bits(1700000000, 31))

\* texts of QR images that /generate_qr did not make
ForeignTexts ==
    {\* not JSON
     <<"A", "B">>, <<"U+00E9">>, <<"0", "1">>, <<"{", "\"", "d", "a", "t", "a", "\"">>,
     <<"[", "1", ",", "]">>,
     \* JSON, not an object
     <<"1", "1">>, <<"\"", "A", "\"">>, <<"[", "1", "]">>, <<"n", "u", "l", "l">>,
     <<"t", "r", "u", "e">>,
     \* objects that are not well-formed envelopes
     <<"{", "}">>,
     DumpsObject(<<<<KeyData, ForeignData>>>>),
     DumpsObject(<<<<KeyCrc32, ForeignEnvelope.v.crc32>>>>),
     DumpsObject(<<<<KeyData, PyInt({0})>>, <<KeyCrc32, ForeignEnvelope.v.crc32>>>>),
     DumpsObject(<<<<KeyData, ForeignData>>, <<KeyCrc32, PyStr(<<49>>)>>>>),
     DumpsObject(<<<<KeyData, ForeignData>>, <<KeyCrc32, ForeignEnvelope.v.crc32>>,
                   <<KeyTimestamp, PyStr(<<49>>)>>>>),
     \* envelopes
     json_dumps(ForeignEnvelope),
     DumpsObject(<<<<KeyData, ForeignData>>, <<KeyCrc32, ForeignEnvelope.v.crc32>>>>),
     DumpsObject(<<<<KeyData, ForeignData>>,
                   <<KeyCrc32, PyInt(Xor32(ForeignEnvelope.v.crc32.v, {0}))>>>>)}

QrIdle ==
    /\ qrPc = "idle"
    /\ qrData = <<>>
    /\ qrUse = None
    /\ qrText = <<>>
    /\ qrInfo = NoInfo
    /\ genResp = NoGenResponse
    /\ decoded = [exc |-> None, list |-> <<>>]
    /\ valResp = NoValResponse

QrInit ==
    /\ qrPc = "generate"
    /\ qrData \in QrStrings(MaxLen)
    /\ qrUse \in UseValues
    /\ qrText = <<>>
    /\ qrInfo = NoInfo
    /\ genResp = NoGenResponse
    /\ decoded = [exc |-> None, list |-> <<>>]
    /\ valResp = NoValResponse

\* POST /generate_qr
GenerateQr ==
    /\ qrPc = "generate"
    /\ \E ts \in Timestamps, made \in BOOLEAN :
          LET r == generate_qr_route(qrData, qrUse, ts, made)
          IN  /\ qrText' = r.text
              /\ qrInfo' = r.info
              /\ genResp' = r.resp
    /\ qrPc' = "validate"
    /\ UNCHANGED <<qrData, qrUse, decoded, valResp>>
    /\ UNCHANGED exceptQr

\* what read_qr may return for the uploaded image: nothing decoded, the text
\* of the QR image just made, a text made elsewhere, or an exception
ReadQrResults ==
    {[exc |-> "ValueError", list |-> <<>>]}
    \cup {[exc |-> None, list |-> l] :
             l \in {<<>>} \cup {<<t>> : t \in ForeignTexts}
                   \cup (IF genResp.success THEN {<<qrText>>} ELSE {})}

\* POST /validate_qr_integrity
ValidateQr ==
    /\ qrPc = "validate"
    /\ \E r \in ReadQrResults :
          /\ decoded' = r
          /\ valResp' = validate_qr_integrity(r)
    /\ qrPc' = "validated"
    /\ UNCHANGED <<qrData, qrUse, qrText, qrInfo, genResp>>
    /\ UNCHANGED exceptQr

----------------------------------------------------------------------------
(* The /embed_docx request.                                                *)

EmbedInit ==
    /\ pc = "embed"
    /\ kind \in {"pdf", "docx"}
    /\ \/ kind = "pdf" /\ pdf \in Pdfs /\ readable \in BOOLEAN /\ docImages = 0
       \/ kind = "docx" /\ pdf = <<>> /\ readable = FALSE
          /\ docImages \in 0..MaxDocImages
    /\ extracted = <<>>
    /\ idx = 1
    /\ outcomes = <<>>
    /\ pairs = <<>>
    /\ wmDir = {}
    /\ processed = <<>>
    /\ raised = None
    /\ pdfResult = NoPdfResult
    /\ pdfCreated = "none"
    /\ pages = <<>>
    /\ workPdf = Absent
    /\ result = NoResult
    /\ outFile = Absent
    /\ docFile = Absent
    /\ response = NoResponse

\* what embed_watermark_to_pdf_real_images does with the extraction: the
\* position it goes to, what it raises and what it returns
AfterExtract(r) ==
    IF r.exc = "NO_IMAGES_FOUND"
    THEN \* re-raised by the outer handler
         [pc |-> "route", raised |-> "NO_IMAGES_FOUND", ret |-> NoPdfResult]
    ELSE IF r.exc # None
    THEN [pc |-> "route", raised |-> None,
          ret |-> [NoPdfResult EXCEPT !.message = MsgErrorProcessing,
                                      !.error_type = None]]
    ELSE IF r.images = <<>>
    THEN [pc |-> "route", raised |-> None,
          ret |-> [NoPdfResult EXCEPT !.message = MsgNoImagesPdf,
                                      !.error_type = "NO_IMAGES_FOUND"]]
    ELSE [pc |-> "loop", raised |-> None, ret |-> NoPdfResult]

\* embed_watermark_to_pdf_real_images, up to the watermark loop
ExtractPdf ==
    /\ pc = "embed"
    /\ kind = "pdf"
    /\ \E oc \in [Positions(pdf) -> ExtractOutcomes] :
          LET r == extract_images_from_pdf(pdf, readable, oc)
              a == AfterExtract(r)
          IN /\ extracted' = r.images
             /\ pc' = a.pc
             /\ raised' = a.raised
             /\ pdfResult' = a.ret
    /\ UNCHANGED <<kind, pdf, readable, docImages, idx, outcomes, pairs,
                   wmDir, processed,
                   pdfCreated, pages, workPdf, result, outFile, docFile,
                   response>>
    /\ UNCHANGED exceptEmbed

\* what one pass of the loop can meet: embed_qr_to_image raised or wrote no
\* file; it wrote an empty file; the checks after it raised; all went well
WatermarkOutcomes == {"no_file", "empty", "verify_raises", "ok"}

\* the image an extracted file holds
LoopOriginal == Uniform(1, 1, <<200, 150, 100>>)

\* what the file written by embed_qr_to_image holds when it is an image: the
\* original with a bit in its blue LSB, or an image of another size
LoopWatermarked == {WithLsb(LoopOriginal, <<1>>), Uniform(2, 1, <<200, 150, 100>>)}

\* what the watermarked file of a pass with outcome oc can hold
WatermarkedFor(oc) ==
    IF oc = "ok" THEN LoopWatermarked
    ELSE IF oc = "verify_raises" THEN {WithLsb(LoopOriginal, <<1>>)}
    ELSE {Unreadable}

\* the entry appended to processed_images for image i
ProcessedEntry(i, name, metrics) ==
    [image_index |-> i, original_filename |-> name, watermarked_filename |-> name,
     metrics |-> metrics]

\* processed_images after the pass over image i with outcome oc
AppendProcessed(done, i, name, oc, original, watermarked) ==
    IF oc = "ok"
    THEN Append(done, ProcessedEntry(i, name, calculate_mse_psnr(original, watermarked)))
    ELSE done

\* one pass of the watermark loop
WatermarkImage ==
    /\ pc = "loop"
    /\ idx <= Len(extracted)
    /\ \E oc \in WatermarkOutcomes :
          \E wm \in WatermarkedFor(oc) :
             /\ wmDir' = IF oc = "no_file" THEN wmDir
                         ELSE wmDir \cup {[name |-> extracted[idx],
                                           empty |-> (oc = "empty")]}
             /\ processed' = AppendProcessed(processed, idx, extracted[idx], oc,
                                             LoopOriginal, wm)
             /\ outcomes' = Append(outcomes, oc)
             /\ pairs' = Append(pairs, [a |-> LoopOriginal, b |-> wm])
    /\ idx' = idx + 1
    /\ UNCHANGED <<pc, kind, pdf, readable, docImages, extracted, raised, pdfResult,
                   pdfCreated, pages, workPdf, result, outFile, docFile,
                   response>>
    /\ UNCHANGED exceptEmbed

\* (mutant) a run that succeeds only when every extracted image was processed
RunSucceeds_AllProcessed(done) == Len(done) = Len(extracted)

\* whether the run goes on to build the PDF
RunSucceeds(done) == done # <<>>

\* the loop is over: fail the run, or go on to build the PDF
EndLoop ==
    /\ pc = "loop"
    /\ idx > Len(extracted)
    /\ IF RunSucceeds(processed)
       THEN /\ pc' = "assemble"
            /\ UNCHANGED pdfResult
       ELSE /\ pc' = "route"
            /\ pdfResult' = [NoPdfResult EXCEPT
                                !.message = MsgWatermarkingFailed,
                                !.error_type = "WATERMARKING_FAILED"]
    /\ UNCHANGED <<kind, pdf, readable, docImages, extracted, idx, outcomes, pairs,
                   wmDir,
                   processed, raised, pdfCreated, pages, workPdf, result,
                   outFile, docFile, response>>
    /\ UNCHANGED exceptEmbed

\* the dict embed_watermark_to_pdf_real_images returns after the attempt to
\* build the PDF (created: what create_watermarked_pdf returned)
EmbedReturn(created, done, total) ==
    [success |-> TRUE, message |-> <<"Berhasil">>, error_type |-> None,
     watermarked_pdf_path |-> "watermarked_output.pdf",
     processed_images |-> done, total_images |-> total]

\* create_watermarked_pdf and the return of embed_watermark_to_pdf_real_images
Assemble ==
    /\ pc = "assemble"
    /\ \E order \in SortedOrders({f \in wmDir : f.name.ext \in PdfImageExts}),
          saveOk \in BOOLEAN, partial \in BOOLEAN :
          LET c == create_watermarked_pdf(wmDir, order, saveOk, partial)
          IN /\ pdfCreated' = IF c.created THEN "True" ELSE "False"
             /\ pages' = c.pages
             /\ workPdf' = c.file
             /\ pdfResult' = EmbedReturn(c.created, processed, Len(extracted))
    /\ pc' = "route"
    /\ UNCHANGED <<kind, pdf, readable, docImages, extracted, idx, outcomes, pairs,
                   wmDir,
                   processed, raised, result, outFile, docFile, response>>
    /\ UNCHANGED exceptEmbed

\* the file the route leaves at stego_docx_output_path after a successful
\* pdf_result: the assembled PDF if it exists, else a text placeholder
RouteOutput(path, file) ==
    IF path # None /\ file # Absent THEN file ELSE "placeholder"

\* embed_docx_route, the PDF branch after the call
RoutePdf ==
    /\ pc = "route"
    /\ IF raised = "NO_IMAGES_FOUND"
       THEN /\ result' = [success |-> FALSE, stderr |-> MsgNoImagesPdf, set |-> TRUE]
            /\ UNCHANGED outFile
       ELSE IF pdfResult.success
       THEN /\ result' = [success |-> TRUE, stderr |-> <<>>, set |-> TRUE]
            /\ outFile' = RouteOutput(pdfResult.watermarked_pdf_path, workPdf)
       ELSE /\ result' = [success |-> FALSE, stderr |-> pdfResult.message, set |-> TRUE]
            /\ UNCHANGED outFile
    /\ pc' = "respond"
    /\ UNCHANGED <<kind, pdf, readable, docImages, extracted, idx, outcomes, pairs,
                   wmDir,
                   processed, raised, pdfResult, pdfCreated, pages, workPdf,
                   docFile, response>>
    /\ UNCHANGED exceptEmbed

\* main.py embed_docx run as a script for a DOCX upload
RunDocx ==
    /\ pc = "embed"
    /\ kind = "docx"
    /\ \E ok \in BOOLEAN :
          IF docImages = 0
          THEN /\ result' = [success |-> FALSE, stderr |-> MsgDocxNoImages, set |-> TRUE]
               /\ UNCHANGED outFile
          ELSE IF ok
          THEN /\ result' = [success |-> TRUE, stderr |-> <<>>, set |-> TRUE]
               /\ outFile' = "docx"
          ELSE /\ result' = [success |-> FALSE, stderr |-> MsgDocxFailed, set |-> TRUE]
               /\ UNCHANGED outFile
    /\ pc' = "respond"
    /\ UNCHANGED <<kind, pdf, readable, docImages, extracted, idx, outcomes, pairs,
                   wmDir,
                   processed, raised, pdfResult, pdfCreated, pages, workPdf,
                   docFile, response>>
    /\ UNCHANGED exceptEmbed

\* the failure response for a result whose stderr is msg
ErrorResponse(msg) ==
    IF msg # <<>> /\ InMessage("NO_IMAGES_FOUND", msg)
    THEN [status |-> 400, success |-> FALSE, error_type |-> "NO_IMAGES_FOUND",
          message |-> "Dokumen ini tidak mengandung gambar"]
    ELSE [status |-> 500, success |-> FALSE, error_type |-> None,
          message |-> "Gagal menyisipkan watermark."]

\* embed_docx_route from  if result["success"]  to its return
Respond ==
    /\ pc = "respond"
    /\ IF result.success
       THEN /\ docFile' = outFile
            /\ response' = [status |-> 200, success |-> TRUE,
                            error_type |-> None,
                            message |-> "Watermark berhasil disisipkan"]
       ELSE /\ UNCHANGED docFile
            /\ response' = ErrorResponse(result.stderr)
    /\ pc' = "done"
    /\ UNCHANGED <<kind, pdf, readable, docImages, extracted, idx, outcomes, pairs,
                   wmDir,
                   processed, raised, pdfResult, pdfCreated, pages, workPdf,
                   result, outFile>>
    /\ UNCHANGED exceptEmbed

CrcIdle ==
    /\ crcPc = "idle"
    /\ crcData = <<>>
    /\ crcEnv = PyNone
    /\ crcHow = "none"
    /\ crcRes = NotVerified

Init == EmbedInit /\ CrcIdle /\ QrIdle /\ MetIdle /\ RtIdle /\ CcIdle /\ XqIdle /\ SpIdle /\ FsIdle /\ CmIdle /\ VdIdle /\ SvIdle

Next ==
    \/ ExtractPdf
    \/ WatermarkImage
    \/ EndLoop
    \/ Assemble
    \/ RoutePdf
    \/ RunDocx
    \/ Respond

Spec == Init /\ [][Next]_vars

----------------------------------------------------------------------------
(* Properties of the /embed_docx request (specification Spec).             *)

\* the extraction loop of the PDF branch has run and returned images
Extracted == kind = "pdf" /\ pc \in {"loop", "assemble", "route", "respond", "done"}
                /\ extracted # <<>>

\* embed_watermark_to_pdf_real_images has returned a dict
Returned == kind = "pdf" /\ pc \in {"route", "respond", "done"} /\ raised = None

\* C1: in real-image mode the extraction returns exactly one image per
\* distinct image stream (xref): when every reference was extracted, the list
\* has as many entries as the PDF has distinct xrefs.
C1_OnePerDistinctXref ==
    (Extracted /\ Len(extracted) = TotalRefs(pdf))
        => Len(extracted) = Cardinality(DistinctXrefs(pdf))

\* C2: when create_watermarked_pdf fails, embed_watermark_to_pdf_real_images
\* does not report success and the route does not answer success.
C2_AssemblyFailureAborts ==
    pdfCreated = "False"
        => /\ Returned => ~pdfResult.success
           /\ pc = "done" => ~response.success

\* C3: whenever the route answers success for a PDF upload, the file at the
\* output path is the PDF assembled by create_watermarked_pdf, never a partial
\* or placeholder file.
C3_SuccessEmitsAssembledPdf ==
    (pc = "done" /\ kind = "pdf" /\ response.success)
        => /\ outFile = "pdf"
           /\ pdfCreated = "True"

\* C4: for a PDF with zero embedded images the embed run fails with
\* NO_IMAGES_FOUND, raised by the extraction and propagated by
\* embed_watermark_to_pdf_real_images, the route answers failure, and no file
\* is written to the output path, the documents folder or the work directory.
C4_NoImagesNoOutput ==
    (kind = "pdf" /\ readable /\ TotalRefs(pdf) = 0 /\ pc # "embed")
        => /\ raised = "NO_IMAGES_FOUND"
           /\ pdfResult = NoPdfResult
           /\ pc \in {"route", "respond", "done"}
           /\ outFile = Absent /\ docFile = Absent /\ workPdf = Absent
           /\ result.set => ~result.success
           /\ pc = "done" => ~response.success

C4_Witness ==
    pc = "done" /\ kind = "pdf" /\ readable /\ Len(pdf) > 0 /\ TotalRefs(pdf) = 0

\* an upload whose container holds no image
NoImagesUpload ==
    \/ kind = "pdf" /\ readable /\ TotalRefs(pdf) = 0
    \/ kind = "docx" /\ docImages = 0

\* C5: every failure answered by the embed route carries its taxonomy tag; in
\* particular a container without images, DOCX or PDF, is answered with
\* error_type NO_IMAGES_FOUND.
C5_NoImagesCarriesTag ==
    (pc = "done" /\ NoImagesUpload)
        => /\ ~response.success
           /\ response.error_type = "NO_IMAGES_FOUND"

RECURSIVE SelectNames(_, _)
\* the subsequence of the file names s that lie in the set keep
SelectNames(s, keep) ==
    IF s = <<>> THEN <<>>
    ELSE IF Head(s) \in keep THEN <<Head(s)>> \o SelectNames(Tail(s), keep)
    ELSE SelectNames(Tail(s), keep)

\* names of the watermarked files create_watermarked_pdf takes
AssembledNames == {f.name : f \in {g \in wmDir : g.name.ext \in PdfImageExts}}

\* C6 as stated: the k-th page of the built PDF is the watermarked version of
\* the k-th image in extraction order.
C6_PageKIsImageK ==
    pdfCreated = "True"
        => \A k \in 1..Len(pages) : k <= Len(extracted) /\ pages[k] = extracted[k]

\* C6 (amended): the pages of the built PDF are the watermarked versions of
\* the extracted images whose watermarked file is in the directory with an
\* accepted suffix, in extraction order, which is ascending (page, index) as
\* numbers; when every image has such a file the k-th page is the k-th image.
C6_PagesInExtractionOrder ==
    pdfCreated = "True"
        => /\ pages = SelectNames(extracted, AssembledNames)
           /\ \A j, k \in 1..Len(pages) :
                 j < k => /\ ToInt(pages[j].p) <= ToInt(pages[k].p)
                          /\ ToInt(pages[j].p) = ToInt(pages[k].p)
                                => ToInt(pages[j].i) < ToInt(pages[k].i)
           /\ AssembledNames = {extracted[k] : k \in 1..Len(extracted)}
                 => pages = extracted

\* a built PDF of two pages from page 9 and page 10 of the upload
C6_Witness ==
    /\ pdfCreated = "True"
    /\ Len(pages) = 2
    /\ ToInt(pages[1].p) = 9
    /\ ToInt(pages[2].p) = 10

\* C7: the embed run returns success exactly when at least one extracted
\* image was watermarked successfully; a run in which every image fails
\* returns WATERMARKING_FAILED and builds no PDF.
C7_SuccessIffSomeImage ==
    (Returned /\ extracted # <<>>)
        => /\ pdfResult.success <=> (\E k \in 1..Len(outcomes) : outcomes[k] = "ok")
           /\ ~pdfResult.success
                 => /\ pdfResult.error_type = "WATERMARKING_FAILED"
                    /\ pdfCreated = "none" /\ workPdf = Absent /\ pages = <<>>

\* a run of two images, one failed and one watermarked, that succeeded
C7_Witness ==
    /\ Returned /\ pdfResult.success
    /\ \E j, k \in 1..Len(outcomes) : outcomes[j] = "ok" /\ outcomes[k] # "ok"

\* C8: every extracted image has a per-image entry in the returned result,
\* and the entry of a failed image carries its error.
C8_EveryImageHasEntry ==
    (Returned /\ pdfResult.success)
        => \A k \in 1..Len(extracted) :
              \E n \in 1..Len(pdfResult.processed_images) :
                 pdfResult.processed_images[n].image_index = k

\* pass k compared two images of different dimensions
SizesDiffer(k) ==
    /\ outcomes[k] = "ok"
    /\ pairs[k].a.readable /\ pairs[k].b.readable
    /\ <<pairs[k].a.w, pairs[k].a.h>> # <<pairs[k].b.w, pairs[k].b.h>>

\* done holds the entry of image k, its metrics the dimension-mismatch error
\* and nothing else
MismatchRecorded(done, k) ==
    \E n \in 1..Len(done) :
       /\ done[n].image_index = k
       /\ done[n].metrics = [error |-> "Ukuran gambar tidak sama"]

\* C16: calculate_mse_psnr on two images of different dimensions returns the
\* dimension-mismatch error with no mse or psnr and does not raise; inside
\* embed_watermark_to_pdf_real_images the result is recorded in the metrics
\* of that image, the loop goes on to the next image, and the run returns
\* success with the image among its processed images.
C16_MismatchRecordedRunGoesOn ==
    \A k \in 1..Len(pairs) :
       SizesDiffer(k)
          => /\ MismatchRecorded(processed, k)
             /\ pc = "loop" => idx > k
             /\ Returned => /\ pdfResult.success
                            /\ MismatchRecorded(pdfResult.processed_images, k)

\* a returned run whose first image met the mismatch and whose second image
\* was compared with success
C16_Witness ==
    /\ Returned
    /\ Len(pairs) = 2
    /\ SizesDiffer(1)
    /\ Len(processed) = 2
    /\ "success" \in DOMAIN processed[2].metrics

----------------------------------------------------------------------------
(* The CRC32 envelope: sealed by add_crc32_checksum, possibly changed on   *)
(* the way, then verified (specification SpecCrc).                         *)

EmbedIdle ==
    /\ pc = "idle"
    /\ kind = "pdf"
    /\ pdf = <<>>
    /\ readable = FALSE
    /\ docImages = 0
    /\ extracted = <<>>
    /\ idx = 1
    /\ outcomes = <<>>
    /\ pairs = <<>>
    /\ wmDir = {}
    /\ processed = <<>>
    /\ raised = None
    /\ pdfResult = NoPdfResult
    /\ pdfCreated = "none"
    /\ pages = <<>>
    /\ workPdf = Absent
    /\ result = NoResult
    /\ outFile = Absent
    /\ docFile = Absent
    /\ response = NoResponse

CrcInit ==
    /\ crcPc = "start"
    /\ crcData \in Strings(MaxLen)
    /\ crcEnv = PyNone
    /\ crcHow = "none"
    /\ crcRes = NotVerified

InitCrc == EmbedIdle /\ CrcInit /\ QrIdle /\ MetIdle /\ RtIdle /\ CcIdle /\ XqIdle /\ SpIdle /\ FsIdle /\ CmIdle /\ VdIdle /\ SvIdle

\* add_crc32_checksum(X)
AddChecksum ==
    /\ crcPc = "start"
    /\ \E ts \in Timestamps : crcEnv' = add_crc32_checksum(crcData, ts)
    /\ crcHow' = "sealed"
    /\ crcPc' = "sealed"
    /\ UNCHANGED <<crcData, crcRes>>
    /\ UNCHANGED exceptCrc

\* number of positions at which two byte strings of equal length differ
ByteDiff(a, b) == Cardinality({k \in 1..Len(a) : a[k] # b[k]})

\* the strings whose UTF-8 bytes differ from those of s in exactly one byte
SingleByteChanges(s) ==
    {t \in Strings(MaxLen) :
        /\ Len(Utf8(t)) = Len(Utf8(s))
        /\ ByteDiff(Utf8(t), Utf8(s)) = 1}

\* one byte of data changes, crc32 is left as it was
ChangeByte ==
    /\ crcPc = "sealed"
    /\ \E t \in SingleByteChanges(crcEnv.v.data.v) :
          crcEnv' = PyDict(PyStr(t), crcEnv.v.crc32, crcEnv.v.timestamp)
    /\ crcHow' = "byte_changed"
    /\ crcPc' = "changed"
    /\ UNCHANGED <<crcData, crcRes>>
    /\ UNCHANGED exceptCrc

\* crc32 changes, data is left as it was
ChangeChecksum ==
    /\ crcPc = "sealed"
    /\ crcEnv' = PyDict(crcEnv.v.data, PyInt(Xor32(crcEnv.v.crc32.v, {0})),
                        crcEnv.v.timestamp)
    /\ crcHow' = "crc_changed"
    /\ crcPc' = "changed"
    /\ UNCHANGED <<crcData, crcRes>>
    /\ UNCHANGED exceptCrc

\* the malformed envelopes made from e, each with the way it is malformed
Malformed(e) ==
    {<<"not_object", PyList(<<>>)>>,
     <<"not_object", e.v.data>>,
     <<"not_object", e.v.crc32>>,
     <<"not_object", PyNone>>,
     <<"no_data", PyDict(PyNone, e.v.crc32, e.v.timestamp)>>,
     <<"no_crc32", PyDict(e.v.data, PyNone, e.v.timestamp)>>,
     <<"data_not_str", PyDict(PyInt(Bits(7, 8)), e.v.crc32, e.v.timestamp)>>,
     <<"data_not_str", PyDict(PyList(<<1>>), e.v.crc32, e.v.timestamp)>>}

\* the decoded JSON is not a well-formed envelope
Malform ==
    /\ crcPc = "sealed"
    /\ \E m \in Malformed(crcEnv) :
          /\ crcHow' = m[1]
          /\ crcEnv' = m[2]
    /\ crcPc' = "changed"
    /\ UNCHANGED <<crcData, crcRes>>
    /\ UNCHANGED exceptCrc

\* verify_crc32_checksum(envelope)
Verify ==
    /\ crcPc \in {"sealed", "changed"}
    /\ crcRes' = verify_crc32_checksum(crcEnv)
    /\ crcPc' = "verified"
    /\ UNCHANGED <<crcData, crcEnv, crcHow>>
    /\ UNCHANGED exceptCrc

NextCrc ==
    \/ AddChecksum
    \/ ChangeByte
    \/ ChangeChecksum
    \/ Malform
    \/ Verify

SpecCrc == InitCrc /\ [][NextCrc]_vars

Verified == crcPc = "verified"

\* the result has a data_valid field and it is b
DataValidIs(b) ==
    /\ crcRes.exc = None
    /\ "data_valid" \in DOMAIN crcRes.ret
    /\ crcRes.ret.data_valid = b

\* C9 as stated: for every payload X the envelope add_crc32_checksum(X)
\* verifies with data_valid = true, and with one byte of data changed and
\* crc32 left as crc32(X) it verifies with data_valid = false.
C9_EveryPayloadRoundTrips ==
    Verified
        => /\ crcHow = "sealed" => DataValidIs(TRUE)
           /\ crcHow = "byte_changed" => DataValidIs(FALSE)

\* C9 (amended): the same for every non-empty payload X; the envelope of the
\* empty payload is answered as incomplete, without a data_valid field.
C9_NonEmptyPayloadRoundTrips ==
    Verified
        => /\ (crcHow = "sealed" /\ crcData # <<>>) => DataValidIs(TRUE)
           /\ (crcHow = "sealed" /\ crcData = <<>>)
                 => /\ "data_valid" \notin DOMAIN crcRes.ret
                    /\ crcRes.ret.valid = FALSE
           /\ crcHow = "byte_changed" => DataValidIs(FALSE)

\* an envelope verified after one byte of a two-byte character was changed
C9_Witness ==
    /\ Verified
    /\ crcHow = "byte_changed"
    /\ Len(Utf8(crcData)) > Len(crcData)

MalformedHow == {"not_object", "no_data", "no_crc32", "data_not_str"}

\* data and crc32 are both there and do not agree
MismatchCase ==
    /\ crcHow \in {"byte_changed", "crc_changed"}
    /\ crcData # <<>>

\* the envelope is malformed; an envelope whose data is the empty string
\* counts as one, as the function reads it as missing
MalformedCase ==
    \/ crcHow \in MalformedHow
    \/ crcHow = "crc_changed" /\ crcData = <<>>

----------------------------------------------------------------------------
(* The QR routes (specification SpecQr).                                   *)

InitQr == EmbedIdle /\ CrcIdle /\ QrInit /\ MetIdle /\ RtIdle /\ CcIdle /\ XqIdle /\ SpIdle /\ FsIdle /\ CmIdle /\ VdIdle /\ SvIdle

NextQr ==
    \/ GenerateQr
    \/ ValidateQr

SpecQr == InitQr /\ [][NextQr]_vars

Validated == qrPc = "validated"

\* read_qr returned a text
TextRead == decoded.exc = None /\ decoded.list # <<>>

\* the text read_qr returned is not valid JSON
NotJson == TextRead /\ json_loads(decoded.list[1]).exc = "JSONDecodeError"

BadEnvelope(x) ==
    \/ x.t # "dict"
    \/ x.v.data.t # "str"
    \/ x.v.crc32.t # "int"
    \/ x.v.timestamp.t \notin {"int", "none"}

\* the text read_qr returned is malformed as an envelope
MalformedText ==
    /\ TextRead
    /\ \/ NotJson
       \/ BadEnvelope(json_loads(decoded.list[1]).v)

\* C12: for every decoded QR text that is malformed as an envelope, JSON
\* that is not an envelope object included, validate_qr_integrity answers
\* the legacy-format case or data_valid = false, never a server error.
C12_MalformedNeverServerError ==
    (Validated /\ MalformedText)
        => /\ valResp.status = 200
           /\ \/ valResp.integrity_check = FALSE
              \/ valResp.data_valid = FALSE

Generated == qrPc \in {"validate", "validated"} /\ qrData # <<>>

\* C13: the QR text built by generate_qr_route is the payload verbatim when
\* integrity is off; when it is on, the text is a JSON envelope whose data is
\* the payload and whose crc32 is the CRC32 of the payload's UTF-8 bytes, an
\* unsigned 32-bit value; crc32_enabled and crc32_info.integrity_protected
\* of the response both equal the request's flag.
C13_QrTextIsPayloadOrEnvelope ==
    Generated
        => /\ qrUse # "true" => qrText = TextOf(qrData) /\ StrOf(qrText) = qrData
           /\ qrUse = "true"
                 => LET p == json_loads(qrText)
                    IN  /\ p.exc = None
                        /\ p.v.t = "dict"
                        /\ p.v.v.data = PyStr(qrData)
                        /\ p.v.v.crc32.t = "int"
                        /\ p.v.v.crc32.v = Crc32(Utf8(qrData))
                        /\ p.v.v.crc32.v \subseteq 0..31
           /\ genResp.success
                 => /\ genResp.crc32_enabled = (qrUse = "true")
                    /\ genResp.crc32_info.integrity_protected = (qrUse = "true")
           /\ qrInfo.integrity_protected = (qrUse = "true")

\* an envelope was built for a payload holding a quote and a character
\* outside ASCII
C13_Witness ==
    /\ Generated
    /\ qrUse = "true"
    /\ genResp.success
    /\ \E j, k \in 1..Len(qrData) : qrData[j] = 34 /\ qrData[k] = 233

----------------------------------------------------------------------------
(* Image comparison and the LSB (specification SpecMet).                   *)

InitMet == EmbedIdle /\ CrcIdle /\ QrIdle /\ MetInit /\ RtIdle /\ CcIdle /\ XqIdle /\ SpIdle /\ FsIdle /\ CmIdle /\ VdIdle /\ SvIdle

NextMet ==
    \/ MakeSecond
    \/ Compare
    \/ Analyse
    \/ WriteBit

SpecMet == InitMet /\ [][NextMet]_vars

Compared == metPc \in {"compared", "analysed"}

\* calculate_mse_psnr returned its success dict
MetricsOk == "success" \in DOMAIN metRes /\ metRes.success

\* C14: for every readable image C, calculate_mse_psnr(C, C) returns success
\* with mse == 0, the label Identik, and a psnr that is the finite sentinel
\* 999.99, never infinity.
C14_SameImageIsIdentik ==
    (Compared /\ imgHow = "same")
        => /\ MetricsOk
           /\ metRes.mse[1] = 0
           /\ metRes.quality = "Identik"
           /\ metRes.psnr = PsnrSentinel

C14_Witness ==
    /\ Compared
    /\ imgHow = "same"
    /\ imgA.readable
    /\ Len(imgA.px) > 1

\* mse < a / b for mse = <<num, den>>
MseBelow(mse, a, b) == mse[1] * b < a * mse[2]

\* C15: the label is Identik if and only if mse == 0; otherwise it is
\* Sangat Baik when psnr > 40 (mse < 6.5025), Baik when 30 < psnr <= 40
\* (mse < 65.025), Cukup when 20 < psnr <= 30 (mse < 650.25), Buruk when
\* psnr <= 20, for psnr = 20 * log10(255 / sqrt(mse)).
C15_LabelByThresholds ==
    (Compared /\ MetricsOk)
        => /\ metRes.quality = "Identik" <=> metRes.mse[1] = 0
           /\ metRes.mse[1] > 0
                 => metRes.quality =
                      (IF MseBelow(metRes.mse, 2601, 400) THEN "Sangat Baik"
                       ELSE IF MseBelow(metRes.mse, 2601, 40) THEN "Baik"
                       ELSE IF MseBelow(metRes.mse, 2601, 4) THEN "Cukup"
                       ELSE "Buruk")

\* a pair of images labelled Cukup was compared
C15_Witness ==
    /\ Compared
    /\ MetricsOk
    /\ metRes.quality = "Cukup"
    /\ imgHow = "delta"

\* C17: for two images of equal size that differ only in the LSB of the blue
\* channel of some pixels, calculate_mse_psnr reports mse <= 1/3 and a label
\* in {Sangat Baik, Identik}.
C17_LsbChangeStaysVeryGood ==
    (Compared /\ imgHow = "lsb")
        => /\ MetricsOk
           /\ 3 * metRes.mse[1] <= metRes.mse[2]
           /\ metRes.quality \in {"Sangat Baik", "Identik"}

\* every pixel of the second image differs in its blue LSB
C17_Witness ==
    /\ Compared
    /\ imgHow = "lsb"
    /\ MetricsOk
    /\ 3 * metRes.mse[1] = metRes.mse[2]

\* C18: writing the LSB of an 8-bit value v as (v & 0xFE) | b and reading it
\* as value & 1 returns b, leaves the upper seven bits, stays in 0..255 and
\* changes v by at most 1; the blue LSB counts of get_detailed_pixel_info
\* satisfy lsb_0_count + lsb_1_count == width * height ==
\* steganography_capacity.
C18_LsbWriteReadAndCounts ==
    /\ metPc = "written"
          => /\ ReadLsb(lsbOut) = lsbB
             /\ lsbOut \div 2 = lsbV \div 2
             /\ lsbOut \in 0..255
             /\ lsbOut - lsbV \in {-1, 0, 1}
    /\ (metPc = "analysed" /\ imgB.readable)
          => /\ pixInfo.lsb_analysis.lsb_0_count + pixInfo.lsb_analysis.lsb_1_count
                  = pixInfo.image_info.width * pixInfo.image_info.height
             /\ pixInfo.steganography_capacity
                  = pixInfo.image_info.width * pixInfo.image_info.height
             /\ pixInfo.image_info.width = imgB.w
             /\ pixInfo.image_info.height = imgB.h

\* an image holding both LSB values was analysed
C18_Witness ==
    /\ metPc = "analysed"
    /\ imgB.readable
    /\ pixInfo.lsb_analysis.lsb_0_count > 0
    /\ pixInfo.lsb_analysis.lsb_1_count > 0

----------------------------------------------------------------------------
(* The round trip (specification SpecRt).                                  *)

InitRt == EmbedIdle /\ CrcIdle /\ QrIdle /\ MetIdle /\ RtInit /\ CcIdle /\ XqIdle /\ SpIdle /\ FsIdle /\ CmIdle /\ VdIdle /\ SvIdle

NextRt == CreatePdf \/ ReExtract

SpecRt == InitRt /\ [][NextRt]_vars

\* the file the k-th image of the extraction came from
SourceOf(k) ==
    rtPdf.streams[rtPdf.doc[ToInt(rtOut.images[k].p)][ToInt(rtOut.images[k].i)]]

----------------------------------------------------------------------------
(* Two requests at the same time (specification SpecCc).                   *)

InitCc == EmbedIdle /\ CrcIdle /\ QrIdle /\ MetIdle /\ RtIdle /\ CcInit /\ XqIdle /\ SpIdle /\ FsIdle /\ CmIdle /\ VdIdle /\ SvIdle

NextCc ==
    \/ \E r \in Runs : SaveUploads(r)
    \/ \E r \in Runs : ProcessPdf(r)
    \/ \E r \in Runs : ProcessDocx(r)
    \/ \E r \in Runs : ExtractOriginal(r)
    \/ \E r \in Runs : ExtractStego(r)
    \/ \E r \in Runs : ComparePair(r)
    \/ \E r \in Runs : RemoveOriginalDir(r)
    \/ \E r \in Runs : RemoveStegoDir(r)
    \/ \E r \in Runs : RemoveTemp(r)

SpecCc == InitCc /\ [][NextCc]_vars

\* C20: two embed runs executing at the same time never read, overwrite or
\* delete a working file of the other, the directories calculate_metrics
\* uses to compare original and stego images included.
C20_RunsNeverInterfere == ccForeign = {}

----------------------------------------------------------------------------
(* Watermark extraction from a PDF (specification SpecXq).                 *)

InitXq == EmbedIdle /\ CrcIdle /\ QrIdle /\ MetIdle /\ RtIdle /\ CcIdle /\ XqInit /\ SpIdle /\ FsIdle /\ CmIdle /\ VdIdle /\ SvIdle

NextXq == ExtractWatermarks

SpecXq == InitXq /\ [][NextXq]_vars

\* C21: extracted_qrs holds exactly one entry for each image that yielded a
\* decodable QR symbol and none for an image whose bit-plane holds no
\* decodable symbol; qr_found is the number of entries and never exceeds
\* total_images.
C21_EntryIffDecodable ==
    (xqPc = "returned" /\ xqRaised = None)
        => /\ {xqResult.extracted_qrs[n].image_index : n \in 1..Len(xqResult.extracted_qrs)}
                 = {i \in 1..Len(xqImages) : xqImages[i].decodable}
           /\ xqResult.qr_found = Len(xqResult.extracted_qrs)
           /\ xqResult.qr_found <= xqResult.total_images

----------------------------------------------------------------------------
(* safe_subprocess_run (specification SpecSp).                             *)

InitSp == EmbedIdle /\ CrcIdle /\ QrIdle /\ MetIdle /\ RtIdle /\ CcIdle /\ XqIdle /\ SpInit /\ FsIdle /\ CmIdle /\ VdIdle /\ SvIdle

NextSp == RunCommand

SpecSp == InitSp /\ [][NextSp]_vars

\* C22: safe_subprocess_run never raises; it returns success True only when
\* the command ran and exited with code zero, and for a command that does
\* not exist, a non-zero exit or any other exception it returns a dict with
\* success False that holds an 'error' key.
C22_SubprocessNeverRaises ==
    spPc = "returned"
        => /\ spRes.exc = None
           /\ spRes.ret.success <=> (spRun.ending = "exited" /\ spRun.code = 0)
           /\ ~spRes.ret.success => "error" \in DOMAIN spRes.ret

\* a command that could not be executed has returned
C22_Witness ==
    /\ spPc = "returned"
    /\ spRun.ending = "PermissionError"
    /\ ~spRes.ret.success

----------------------------------------------------------------------------
(* analyze_file_size_impact (specification SpecFs).                        *)

InitFs == EmbedIdle /\ CrcIdle /\ QrIdle /\ MetIdle /\ RtIdle /\ CcIdle /\ XqIdle /\ SpIdle /\ FsInit /\ CmIdle /\ VdIdle /\ SvIdle

NextFs == AnalyseSizes

SpecFs == InitFs /\ [][NextFs]_vars

BothExist == fsOriginal.exists /\ fsProcessed.exists

\* |original - processed| * 100 < t * original, which for original > 0 is
\* |1 - processed / original| * 100 < t
ChangeBelow(t) ==
    (IF fsProcessed.size >= fsOriginal.size THEN fsProcessed.size - fsOriginal.size
     ELSE fsOriginal.size - fsProcessed.size) * 100 < t * fsOriginal.size

\* the status for the exact value of |1 - processed / original| * 100
ExactStatus ==
    IF ChangeBelow(1) THEN "excellent"
    ELSE IF ChangeBelow(5) THEN "good"
    ELSE IF ChangeBelow(10) THEN "fair"
    ELSE "poor"

\* the keys of either result and the error result of a missing file
SizeResultShape ==
    /\ fsRes.exc = None
    /\ ~BothExist
          => /\ "error" \in DOMAIN fsRes.ret
             /\ fsRes.ret.recommendation.status = "error"
    /\ BothExist
          => /\ {"original_size", "processed_size", "size_change_ratio",
                 "recommendation"} \subseteq DOMAIN fsRes.ret
             /\ fsRes.ret.original_size = fsOriginal.size
             /\ fsRes.ret.processed_size = fsProcessed.size

\* C23 as stated: analyze_file_size_impact never raises; with a file missing
\* it returns an 'error' key and the status 'error'; with both files it
\* returns the sizes, the ratio and the status excellent, good, fair or poor
\* as |1 - processed/original| * 100 is < 1, < 5, < 10 or >= 10.
C23_StatusByExactChange ==
    fsPc = "returned"
        => /\ SizeResultShape
           /\ (BothExist /\ (fsOriginal.size > 0 \/ fsProcessed.size > 0))
                 => fsRes.ret.recommendation.status = ExactStatus

\* C23 (amended): as stated for an original of positive size, except that a
\* processed file of exactly nine tenths of the original is fair (the
\* change is computed in double precision as 9.999999999999998); for an
\* empty original the ratio is taken as 1 and the status is excellent.
C23_StatusByComputedChange ==
    fsPc = "returned"
        => /\ SizeResultShape
           /\ BothExist
                 => fsRes.ret.recommendation.status =
                       (IF fsOriginal.size = 0 THEN "excellent"
                        ELSE IF 10 * fsProcessed.size = 9 * fsOriginal.size THEN "fair"
                        ELSE ExactStatus)

\* two files whose sizes differ by 4 per cent were analysed
C23_Witness ==
    /\ fsPc = "returned"
    /\ fsOriginal.size = 100
    /\ fsProcessed.size = 96
    /\ fsRes.ret.recommendation.status = "good"

----------------------------------------------------------------------------
(* calculate_metrics (specification SpecCm).                               *)

InitCm == EmbedIdle /\ CrcIdle /\ QrIdle /\ MetIdle /\ RtIdle /\ CcIdle /\ XqIdle /\ SpIdle /\ FsIdle /\ CmInit /\ VdIdle /\ SvIdle

NextCm == CalculateMetrics

SpecCm == InitCm /\ [][NextCm]_vars

\* calculate_metrics went through its loop and returned figures
MetricsReturned == cmPc = "returned" /\ cmRes.error = None

\* C24: when every compared pair of images is identical (mse == 0),
\* calculate_metrics reports the aggregate PSNR as a finite number, not as
\* infinity or an 'Infinity' marker.
C24_IdenticalPairsFinitePsnr ==
    (/\ MetricsReturned
     /\ ComparedPairs(cmPairs) # {}
     /\ \A k \in ComparedPairs(cmPairs) : cmPairs[k].mse = 0)
        => cmRes.psnr.kind = "number"

\* C25: the MSE calculate_metrics returns is the mean of the per-pair MSE
\* over exactly the pairs that were compared; pairs skipped for a size
\* mismatch or a read error do not change it.
C25_MseIsMeanOverCompared ==
    (MetricsReturned /\ ComparedPairs(cmPairs) # {})
        => cmRes.mse[1] * Cardinality(ComparedPairs(cmPairs))
              = TotalMse(cmPairs) * cmRes.mse[2]

----------------------------------------------------------------------------
(* The assembled PDF against processed_images (specification Spec).        *)

\* the entries of processed_images for the file f of the watermarked directory
EntriesOf(f) ==
    {n \in 1..Len(processed) : processed[n].watermarked_filename = f.name}

----------------------------------------------------------------------------
(* embed_watermark_to_pdf_via_docx (specification SpecVd).                 *)

InitVd == EmbedIdle /\ CrcIdle /\ QrIdle /\ MetIdle /\ RtIdle /\ CcIdle /\ XqIdle /\ SpIdle /\ FsIdle /\ CmIdle /\ VdInit /\ SvIdle

NextVd == PdfToDocx \/ EmbedIntoDocx \/ DocxToPdf \/ FinishViaDocx

SpecVd == InitVd /\ [][NextVd]_vars

\* the error types a failure of each step is reported with
StepErrors(step) ==
    CASE step = "pdf_to_docx" -> {"PDF_TO_DOCX_FAILED"}
      [] step = "watermark_embed" ->
            {"WATERMARK_EMBED_FAILED", "NO_IMAGES_FOUND", "WATERMARK_EMBED_ERROR"}
      [] step = "docx_to_pdf" -> {"DOCX_TO_PDF_FAILED"}

\* the steps ran in order, and a reported step failure is that of the last
\* step run
StepsInOrder ==
    /\ Len(vdSteps) <= Len(ViaDocxSteps)
    /\ \A k \in 1..Len(vdSteps) : vdSteps[k].step = ViaDocxSteps[k]
    /\ (vdPc = "returned" /\ vdRes.step # None)
          => /\ vdRes.step = vdSteps[Len(vdSteps)].step
             /\ vdRes.error_type \in StepErrors(vdRes.step)

\* C28: embed_watermark_to_pdf_via_docx runs its three steps in order,
\* stops at the first failing step with that step's error_type, and on
\* every exit path neither the temporary DOCX nor the temporary watermarked
\* DOCX remains on disk.
C28_OrderedStepsNoTempLeft ==
    /\ StepsInOrder
    /\ vdPc = "returned"
          => /\ temp_docx_path(vdPath) \notin vdDisk
             /\ watermarked_docx_path(vdPath) \notin vdDisk

----------------------------------------------------------------------------
(* The routes and the folders (specification SpecSv).                      *)

InitSv == EmbedIdle /\ CrcIdle /\ QrIdle /\ MetIdle /\ RtIdle /\ CcIdle /\ XqIdle /\ SpIdle /\ FsIdle /\ CmIdle /\ VdIdle /\ SvInit

NextSv == EmbedRequest \/ ExtractRequest \/ ValidateRequest \/ ListDocuments

SpecSv == InitSv /\ [][NextSv]_vars

\* C27: every route that saves an upload has removed that temporary file by
\* the time it returns, on every path, the DOCX NO_IMAGES_FOUND return of
\* /embed_docx included: between requests the upload folder holds no
\* temporary file.
C27_UploadsRemovedOnReturn == svUploads = {}

\* the request just answered was rejected by the validation of its route
RejectedNow ==
    /\ svN' = svN + 1
    /\ svLast'.stage = "validation"
    /\ svLast'.status = 400
    /\ svLast'.route \in {"embed_docx", "extract_docx"}

\* C29: a /embed_docx or /extract_docx request rejected with 400 during
\* validation writes no file to the upload, generated or documents folder
\* and calls no embedding or extraction.
C29_RejectionWritesNothing ==
    [][RejectedNow => UNCHANGED <<svUploads, svGenerated, svDocs, svCalls>>]_vars

\* a request was rejected by the validation after an earlier request had
\* been processed
C29_Witness ==
    /\ svLast.stage = "validation" /\ svLast.status = 400
    /\ svLast.route \in {"embed_docx", "extract_docx"}
    /\ svCalls # {}

\* every entry of documents is at least as new as the entries after it
NewestFirstListed ==
    \A j, k \in 1..Len(svList.documents) :
       j < k => svList.documents[j].created >= svList.documents[k].created

\* C30: every watermarked document a successful /embed_docx copied into the
\* documents folder appears in /list_documents, whose count is the number
\* of documents stored and whose entries are newest first.
C30_ListShowsEveryDocument ==
    svLast.route = "list_documents"
       => /\ \A d \in svDocs :
                \E k \in 1..Len(svList.documents) : svList.documents[k] = d
          /\ svList.count = Cardinality(svDocs)
          /\ NewestFirstListed

====
